---------------------------- MODULE Spec2Model ----------------------------
(***************************************************************************)
(* Model of the BotSim1.0 minute-by-minute portfolio simulator             *)
(* (src/Python/BotSim1.0): run_simulation's loop, sim_entries /            *)
(* process_entry, sim_exits / close_trade with the drawdown, Fibonacci,    *)
(* time-capitulation and completion exits, the CSV logs written by         *)
(* log_utils, and the "continue" path of main.py through load_state.       *)
(*                                                                         *)
(* Numbers.  The Python code computes in floats, and the model computes    *)
(* in binary floating point as well, with a shorter significand: a sum     *)
(* such as (a + b) - a - b need not be zero, in the code and in the model. *)
(* Timestamps are seconds; the candle of minute m has timestamp            *)
(* MinuteTs(m).                                                            *)
(***************************************************************************)
EXTENDS Integers, Sequences, FiniteSets, TLC

(***************************************************************************)
(* Floating-point arithmetic.  A float is <<m, e>>, the number m * 2^e,    *)
(* with 2^(MantissaBits-1) <= |m| < 2^MantissaBits, or Zero.  Every        *)
(* operation returns the float nearest to the exact result, a tie going to *)
(* the even significand, as the IEEE-754 operations behind Python's float  *)
(* do with a significand of 53 bits.                                       *)
(***************************************************************************)
MantissaBits == 13

Zero == <<0, 0>>

Abs(x) == IF x < 0 THEN 0 - x ELSE x
Sgn(x) == IF x < 0 THEN 0 - 1 ELSE IF x > 0 THEN 1 ELSE 0
Max(a, b) == IF a >= b THEN a ELSE b

RECURSIVE GCD(_, _)
GCD(a, b) == IF b = 0 THEN a ELSE GCD(b, a % b)

\* number of binary digits of n >= 0
RECURSIVE BitLen(_)
BitLen(n) == IF n = 0 THEN 0 ELSE 1 + BitLen(n \div 2)

\* s * q2 * 2^e for a rounded significand q2, which rounding up may have
\* brought to 2^MantissaBits
FNormCarry(s, q2, e) ==
    IF q2 = 2^MantissaBits THEN <<s * 2^(MantissaBits - 1), e + 1>>
    ELSE <<s * q2, e>>

\* quotient q and remainder r of the significand by 2 * half: to nearest,
\* a tie to the even significand
FNormShift(s, q, r, half, e, sticky) ==
    FNormCarry(s,
               IF r > half \/ (r = half /\ (sticky \/ q % 2 = 1)) THEN q + 1 ELSE q,
               e)

\* the float nearest to s * a * 2^e for a > 0 of L binary digits
FNormDigits(s, a, L, e, sticky) ==
    IF L <= MantissaBits
    THEN <<s * a * 2^(MantissaBits - L), e - (MantissaBits - L)>>
    ELSE FNormShift(s, a \div 2^(L - MantissaBits), a % 2^(L - MantissaBits),
                    2^(L - MantissaBits - 1), e + (L - MantissaBits), sticky)

\* The float nearest to n * 2^e, or, when sticky, to a number strictly
\* between n * 2^e and the next integer multiple of 2^e away from zero
\* (n then has more than MantissaBits digits).
FNorm(n, e, sticky) ==
    IF n = 0 THEN Zero
    ELSE FNormDigits(Sgn(n), Abs(n), BitLen(Abs(n)), e, sticky)

\* float(n) of an integer n
FI(n) == FNorm(n, 0, FALSE)

\* s * a / b, with a scaled by 2^sh so that the quotient has two digits more
\* than the significand
FRatioScaled(s, a, b, sh) ==
    FNorm(s * ((a * 2^sh) \div b), 0 - sh, (a * 2^sh) % b # 0)

FRatioReduced(s, a, b) ==
    FRatioScaled(s, a, b, Max(0, MantissaBits + 2 + BitLen(b) - BitLen(a)))

\* the float nearest to the quotient n / d of two integers, d > 0
FRatio(n, d) ==
    IF n = 0 THEN Zero
    ELSE FRatioReduced(Sgn(n), Abs(n) \div GCD(Abs(n), d), d \div GCD(Abs(n), d))

FNeg(x) == <<0 - x[1], x[2]>>
FAbs(x) == <<Abs(x[1]), x[2]>>
FSign(x) == Sgn(x[1])
FIsZero(x) == x[1] = 0

\* hi + lo for two non-zero floats, hi with the larger exponent
FAddAligned(hi, lo) ==
    IF hi[2] - lo[2] > MantissaBits + 1 THEN hi
    ELSE FNorm(hi[1] * 2^(hi[2] - lo[2]) + lo[1], lo[2], FALSE)

FAdd(x, y) ==
    IF x[1] = 0 THEN y
    ELSE IF y[1] = 0 THEN x
    ELSE FAddAligned(IF x[2] >= y[2] THEN x ELSE y, IF x[2] >= y[2] THEN y ELSE x)

FSub(x, y) == FAdd(x, FNeg(y))

FMul(x, y) == FNorm(x[1] * y[1], x[2] + y[2], FALSE)

FDivScaled(s, num, b, e) == FNorm(s * (num \div b), e, num % b # 0)

\* x / y for y # 0 (the callers guard the division as the code does)
FDiv(x, y) ==
    IF x[1] = 0 THEN Zero
    ELSE FDivScaled(Sgn(x[1]) * Sgn(y[1]), Abs(x[1]) * 2^(MantissaBits + 2),
                    Abs(y[1]), x[2] - y[2] - (MantissaBits + 2))

FLt(x, y) == FSign(FSub(x, y)) < 0
FLe(x, y) == FSign(FSub(x, y)) <= 0
FGt(x, y) == FLt(y, x)
FGe(x, y) == FLe(y, x)
FMin(x, y) == IF FLe(x, y) THEN x ELSE y
FMax(x, y) == IF FGe(x, y) THEN x ELSE y

\* the integer nearest to (q * den + r) / den, a tie going to the even one
RoundHalfEven(q, r, den) ==
    IF 2 * r > den THEN q + 1
    ELSE IF 2 * r < den THEN q
    ELSE IF q % 2 = 0 THEN q ELSE q + 1

RoundQuotient(s, num, den, scale) ==
    FRatio(s * RoundHalfEven(num \div den, num % den, den), scale)

\* Python's round(x, ndigits): the float nearest to the multiple of
\* 10^-ndigits nearest to x, a tie going to the even multiple.  An integer
\* is its own rounding.
RoundTo(x, ndigits) ==
    IF x[2] >= 0 THEN x
    ELSE IF 0 - x[2] > 30 THEN Zero
    ELSE RoundQuotient(Sgn(x[1]), Abs(x[1]) * 10^ndigits, 2^(0 - x[2]), 10^ndigits)


(***************************************************************************)
(* Configuration (config.py).  The numeric tunables are single values;     *)
(* the shipped file has starting_bankroll 10000, position_size_percent 70, *)
(* fee_rate 0.0003 and mpd_percent 3.6, and the model keeps the formulas   *)
(* and takes smaller values of the same tunables so that the arithmetic    *)
(* stays inside TLC's integers.  The feature switches are part of the       *)
(* state (cfg), fixed when a simulation is started.                        *)
(***************************************************************************)
starting_bankroll == 100
position_size_method == 3
position_size_percent == 50
fee_rate == FRatio(1, 100)
mpd_percent == FI(4)
ampd_percent_base == 3
ampd_percent_max == 8
ampd_pending_weight == 50
ampd_pending_time_high == 100
ampd_trigger_time_high == 60
\* hours, as a fraction <<n, d>>; one candle is a minute, so 1/30 h is two
\* candles
STATIC_TIME_CAPIT_DURATION == <<1, 30>>
\* round(x, ndigits) of every logged and persisted number (4 in the source;
\* see the remark on numbers above)
LOG_NDIGITS == 2

FibLevels == <<"0.5", "0.0", "-0.5", "-1.0">>
FibLevelSet == {FibLevels[i] : i \in 1..Len(FibLevels)}

\* Python's None for a date, for a price and for a fib_level argument
None_date == 0 - 1
None_price == <<>>
None_level == "None"

\* A trade id: str(uuid.uuid4()) for a regular entry, and
\* f"{trade_id}_fib{level}" for a fib re-entry of that trade.  NoTradeId is
\* the argument trade_id=None.
TradeId(u, level) == [uuid |-> u, fib |-> level]
NoTradeId == TradeId(0, None_level)

SecondsPerMinute == 60
SecondsPerDay == 86400

\* Dates are seconds; the first candle (starting_date) is at StartEpoch, late
\* enough for confirm dates months before it to be non-negative.
StartEpoch == 200 * SecondsPerDay
MinuteTs(m) == StartEpoch + m * SecondsPerMinute

\* the minute of a candle timestamp
MinuteOf(t) == (t - StartEpoch) \div SecondsPerMinute

\* datetime.replace(second=0, microsecond=0)
TruncMinute(t) == (t \div SecondsPerMinute) * SecondsPerMinute

\* compare_timestamps_ignore_seconds(ts1, ts2)
compare_timestamps_ignore_seconds(ts1, ts2) ==
    IF ts1 = None_date \/ ts2 = None_date THEN FALSE
    ELSE TruncMinute(ts1) = TruncMinute(ts2)


(***************************************************************************)
(* State.                                                                  *)
(***************************************************************************)
VARIABLES
    cfg,                   \* the feature switches of config.py for this simulation
    instances,             \* the instance universe (instance files)
    candles,               \* the 1-minute candle file: minute -> candle
    ending_date,           \* ending_date of the current run
    pc,                    \* "running", "done" (report generated)
    next_minute,           \* index of the next candle of run_simulation's loop
    cash_on_hand,
    total_long_position,
    total_short_position,
    long_cost_basis,
    short_cost_basis,
    long_pnl,
    short_pnl,
    open_positions,        \* the in-memory open-position list
    trades_all,            \* trades_all.csv: the trade-log entries written
    open_positions_csv,    \* open_positions.csv
    closed_positions_csv,  \* closed_positions.csv: the rows written
    marker,                \* the "TERMINATED - <reason>.txt" file, if any
    write_failures,        \* how many attempts in a row to open
                           \* open_positions.csv for appending fail (the file
                           \* is held by another program)
    write_attempts,        \* history: the most attempts one write_log_entry made
    analysis_log,          \* analysis_YYYYMM.csv: the MinuteSnapshots written
    exit_log,              \* history: one record per close decided by sim_exits
    next_uuid,             \* source of fresh uuid4 values
    run,                   \* history of the current run of run_simulation
    onepass                \* history: the same inputs simulated without stopping

vars == <<cfg, instances, candles, ending_date, pc, next_minute, cash_on_hand,
          total_long_position, total_short_position, long_cost_basis,
          short_cost_basis, long_pnl, short_pnl, open_positions, trades_all,
          open_positions_csv, analysis_log, exit_log, next_uuid, run, onepass,
          closed_positions_csv, marker, write_failures, write_attempts>>

(***************************************************************************)
(* position_size.py                                                        *)
(***************************************************************************)
position_size_qty == FRatio(1, 5)
position_size_amount == 50
USE_POSITION_DESCALING == FALSE
POSITION_DESCALING_FACTOR == FRatio(1, 2)

\* calculate_position_size raises ValueError("Invalid position_size_method")
calculate_position_size_raises == cfg.position_size_method \notin {1, 2, 3}

\* calculate_position_size(entry_price, bankroll); method 3 is the one the
\* drawdown stops work with.
calculate_position_size(entry_price, bankroll) ==
    IF cfg.position_size_method = 1 THEN position_size_qty
    ELSE IF cfg.position_size_method = 2 THEN FDiv(FI(position_size_amount), entry_price)
    ELSE IF USE_POSITION_DESCALING
         THEN FAdd(FMul(FDiv(FMul(FRatio(position_size_percent, 100),
                                  FI(starting_bankroll)), entry_price),
                        POSITION_DESCALING_FACTOR),
                   FMul(FDiv(FMul(FRatio(position_size_percent, 100), bankroll),
                             entry_price),
                        FSub(FI(1), POSITION_DESCALING_FACTOR)))
         ELSE FDiv(FMul(FRatio(position_size_percent, 100), bankroll), entry_price)

(***************************************************************************)
(* The mutable state of one loop iteration, as the locals run_simulation   *)
(* passes to sim_entries and sim_exits and takes back.                     *)
(***************************************************************************)
Locals ==
    [ total_long_position  |-> total_long_position,
      total_short_position |-> total_short_position,
      long_cost_basis      |-> long_cost_basis,
      short_cost_basis     |-> short_cost_basis,
      cash_on_hand         |-> cash_on_hand,
      long_pnl             |-> long_pnl,
      short_pnl            |-> short_pnl,
      open_positions       |-> open_positions,
      trades_all           |-> trades_all,
      open_positions_csv   |-> open_positions_csv,
      exit_log             |-> exit_log,
      next_uuid            |-> next_uuid,
      closed_positions_csv |-> closed_positions_csv,
      write_failures       |-> write_failures,
      write_attempts       |-> write_attempts,
      \* the exception that is propagating out of run_simulation, if any
      raised               |-> "None" ]

(***************************************************************************)
(* log_utils.py                                                            *)
(***************************************************************************)
max_retries == 5

\* The retry loop of write_log_entry, `for attempt in range(max_retries)`,
\* from the given attempt on, when the first `failures` attempts raise:
\* whether the entry gets written, and in how many attempts.
\* write_log_entry retrying until the write succeeds
write_log_entry_unbounded(attempt, failures) ==
    [written |-> TRUE, attempts |-> Max(attempt, failures) + 1]

RECURSIVE write_log_entry(_, _)
write_log_entry(attempt, failures) ==
    IF attempt >= max_retries THEN [written |-> FALSE, attempts |-> attempt]
    ELSE IF attempt >= failures THEN [written |-> TRUE, attempts |-> attempt + 1]
    ELSE write_log_entry(attempt + 1, failures)

\* write_log_entry(entry, 'open_positions.csv', list(open_position.keys())):
\* appends the row; a new file first gets the header of the given columns,
\* here the keys of the open-position dict (opening_fee first, and the
\* extreme_price columns that open_positions_columns lacks).
write_open_position(file, entry, failures) ==
    IF ~write_log_entry(0, failures).written THEN file
    ELSE IF file.exists
    THEN [file EXCEPT !.rows = Append(@, entry)]
    ELSE [exists |-> TRUE, header |-> "keys", rows |-> <<entry>>]

\* csv.DictReader over open_positions.csv: the value each row yields for the
\* column 'trade_id'.  Rows are always written in the order of the dict's
\* keys; under the header of open_positions_columns the first value of a row
\* (its opening_fee) is what is read as trade_id, and the values beyond the
\* header's width land under the key None.
RowTradeId(file, row) ==
    IF file.header = "keys" THEN row.trade_id
    ELSE [uuid |-> 0, fib |-> "opening_fee"]

\* csv.DictWriter(f, fieldnames=open_positions_columns).writerows(rows)
\* raises ValueError for a row dict with a key outside fieldnames: every row
\* read back has one (opening_fee, extreme_price, extreme_price_date under
\* the "keys" header, the key None otherwise).
DictWriterRaises(rows) == rows # <<>>

\* remove_log_entry(entry_id, 'open_positions.csv', open_positions_columns)
remove_log_entry(file, entry_id) ==
    IF ~file.exists THEN file
    ELSE LET Keep(row) == RowTradeId(file, row) # entry_id
             rows == SelectSeq(file.rows, Keep)
         IN  IF DictWriterRaises(rows)
             \* open(filepath, 'w') has truncated the file and the header is
             \* written when writerows raises; the next attempt reads no rows
             \* and rewrites the header alone.
             THEN [exists |-> TRUE, header |-> "columns", rows |-> <<>>]
             ELSE [exists |-> TRUE, header |-> "columns", rows |-> rows]


(***************************************************************************)
(* sim_entries.py                                                          *)
(***************************************************************************)
\* The dict process_entry receives as `trade`: an instance for a regular
\* entry, an open position for a fib re-entry.  An open position has no key
\* 'Active Date' (trade.get gives None) and carries its date under
\* 'active_date'.
InstanceAsTrade(i) ==
    [ confirm_date   |-> i.confirm_date,
      Active_Date    |-> i.Active_Date,
      active_date    |-> i.Active_Date,
      Completed_Date |-> i.Completed_Date,
      Target_Price   |-> i.target,
      Direction      |-> i.direction,
      DateReached    |-> i.DateReached,
      fib            |-> i.fib,
      instance_id    |-> i.instance_id,
      extreme_price  |-> i.extreme_price ]

PositionAsTrade(pos) ==
    [ confirm_date   |-> pos.confirm_date,
      Active_Date    |-> None_date,
      active_date    |-> pos.active_date,
      Completed_Date |-> pos.Completed_Date,
      Target_Price   |-> pos.Target_Price,
      Direction      |-> pos.Direction,
      DateReached    |-> pos.DateReached,
      fib            |-> pos.fib,
      instance_id    |-> pos.instance_id,
      extreme_price  |-> pos.extreme_price ]

\* the trigger-trade flags of config.py, as the set cfg.tt of those that are on
tt_stf_any_inside_activation == "any_inside_activation" \in cfg.tt
tt_stf_same_minute == "same_minute" \in cfg.tt
tt_stf_within_x_candles == "within_x_candles" \in cfg.tt
tt_stf_within_x_minutes == "within_x_minutes" \in cfg.tt
tt_stf_within_x == 1
tt_stf_within_minutes == 60

\* timeframe_to_minutes(trade['Timeframe']): every instance file is of the
\* timeframe '1h'
tf_minutes == 60

NoTrigger == [instance_id |-> "None"]

\* the test of tt_stf_any_inside_activation on an other instance
AnyInsideQualifies(trade, other) ==
    /\ other # trade
    /\ other.direction = trade.direction
    /\ other.confirm_date # None_date /\ other.Active_Date # None_date
    /\ trade.confirm_date < other.confirm_date /\ other.confirm_date < trade.Active_Date
    /\ trade.confirm_date < other.Active_Date /\ other.Active_Date < trade.Active_Date
    /\ \/ other.Completed_Date = None_date
       \/ ~(trade.confirm_date < other.Completed_Date
            /\ other.Completed_Date < trade.Active_Date)

\* the test of tt_stf_same_minute on an instance of relevant_instances
SameMinuteQualifies(trade, other) ==
    /\ other # trade
    /\ other.direction = trade.direction
    /\ other.confirm_date # None_date /\ other.Active_Date # None_date
    /\ TruncMinute(other.Active_Date) = TruncMinute(trade.Active_Date)
    /\ trade.confirm_date < other.confirm_date /\ other.confirm_date < trade.Active_Date
    /\ trade.confirm_date < other.Active_Date /\ other.Active_Date < trade.Active_Date

\* the test of tt_stf_within_x_candles and tt_stf_within_x_minutes on an
\* entry of the cache, for a window of window_minutes before the activation
WindowQualifies(trade, other, window_minutes) ==
    LET active_window_start == trade.Active_Date - window_minutes * SecondsPerMinute
    IN  /\ other # trade
        /\ other.direction = trade.direction
        /\ other.confirm_date # None_date /\ other.Active_Date # None_date
        /\ TruncMinute(other.Active_Date) >= TruncMinute(active_window_start)
        /\ TruncMinute(other.Active_Date) < TruncMinute(trade.Active_Date)
        /\ trade.confirm_date < other.confirm_date /\ other.confirm_date < trade.Active_Date
        /\ active_window_start <= other.Active_Date /\ other.Active_Date < trade.Active_Date
        /\ \/ other.Completed_Date = None_date
           \/ other.Completed_Date > trade.Active_Date

\* the indexes of all_instances in the order of its minutes (the scan of
\* tt_stf_any_inside_activation), and in the order its keys were inserted
\* (the scan of the caches): the file order within a minute
ByMinute(all) ==
    LET Before(a, b) ==
            \/ TruncMinute(all[a].Active_Date) < TruncMinute(all[b].Active_Date)
            \/ TruncMinute(all[a].Active_Date) = TruncMinute(all[b].Active_Date) /\ a < b
    IN  SortSeq([k \in 1..Len(all) |-> k], Before)

ByInsertion(all) ==
    LET First(a) == CHOOSE k \in 1..Len(all) :
                       /\ TruncMinute(all[k].Active_Date) = TruncMinute(all[a].Active_Date)
                       /\ \A j \in 1..(k - 1) :
                             TruncMinute(all[j].Active_Date) # TruncMinute(all[a].Active_Date)
        Before(a, b) == First(a) < First(b) \/ (First(a) = First(b) /\ a < b)
    IN  SortSeq([k \in 1..Len(all) |-> k], Before)

\* the first instance of a scan that qualifies, NoTrigger without one
FirstOf(all, found) == IF found = <<>> THEN NoTrigger ELSE all[Head(found)]

AnyInsideTrigger(trade, all) ==
    LET Q(k) == AnyInsideQualifies(trade, all[k])
    IN  FirstOf(all, SelectSeq(ByMinute(all), Q))

SameMinuteTrigger(trade, all) ==
    LET Q(k) == SameMinuteQualifies(trade, all[k])
    IN  FirstOf(all, SelectSeq([k \in 1..Len(all) |-> k], Q))

WindowTrigger(trade, all, window_minutes) ==
    LET Q(k) == WindowQualifies(trade, all[k], window_minutes)
    IN  FirstOf(all, SelectSeq(ByInsertion(all), Q))

TriggerResult(has_trigger, trigger) ==
    [has_trigger |-> has_trigger, trigger |-> trigger, raised |-> "None"]

\* check_for_trigger_trades from `if tt_stf_within_x_candles` on
check_for_trigger_trades_windows(trade, all, by_candles, by_minutes) ==
    IF tt_stf_within_x_candles /\ by_candles # NoTrigger
    THEN TriggerResult(TRUE, by_candles)
    ELSE IF tt_stf_within_x_minutes /\ tt_stf_within_minutes > 0 /\ by_minutes # NoTrigger
    THEN TriggerResult(TRUE, by_minutes)
    ELSE TriggerResult(FALSE, NoTrigger)

\* check_for_trigger_trades from `if tt_stf_same_minute` on
check_for_trigger_trades_same_minute(trade, all, same) ==
    IF tt_stf_same_minute /\ same # NoTrigger THEN TriggerResult(TRUE, same)
    ELSE IF tt_stf_same_minute /\ ~tt_stf_within_x_candles
    THEN TriggerResult(FALSE, NoTrigger)
    ELSE check_for_trigger_trades_windows(
             trade, all,
             WindowTrigger(trade, all, tf_minutes * tt_stf_within_x),
             WindowTrigger(trade, all, tt_stf_within_minutes))

\* check_for_trigger_trades from `if tt_stf_any_inside_activation` on
check_for_trigger_trades_any_inside(trade, all, inside) ==
    IF tt_stf_any_inside_activation /\ inside # NoTrigger
    THEN TriggerResult(TRUE, inside)
    ELSE IF tt_stf_any_inside_activation
            /\ ~(tt_stf_same_minute \/ tt_stf_within_x_candles)
    THEN TriggerResult(FALSE, NoTrigger)
    ELSE check_for_trigger_trades_same_minute(trade, all, SameMinuteTrigger(trade, all))

\* check_for_trigger_trades(trade, relevant_instances, all_instances):
\* relevant_instances are the instances of all_instances of the trade's
\* minute.  Without a date the function returns a bare False, which the
\* caller's tuple assignment rejects with TypeError.
check_for_trigger_trades(trade, all) ==
    IF cfg.tt = {} THEN TriggerResult(TRUE, NoTrigger)
    ELSE IF trade.confirm_date = None_date \/ trade.Active_Date = None_date
    THEN [has_trigger |-> FALSE, trigger |-> NoTrigger, raised |-> "TypeError"]
    ELSE check_for_trigger_trades_any_inside(trade, all, AnyInsideTrigger(trade, all))

\* ndigits of round(..., 4) on the AMPD factors (sim_entries.py)
AMPD_NDIGITS == 4

\* ampd_p_value of process_entry: the pending-time factor
ampd_p_value_of(trade) ==
    IF trade.confirm_date # None_date /\ trade.Active_Date # None_date
       /\ cfg.ampd_use_pending_time /\ ampd_pending_time_high > 0
    THEN LET pending_days == FRatio(trade.Active_Date - trade.confirm_date,
                                   SecondsPerDay)
         IN  RoundTo(FMin(FDiv(pending_days, FI(ampd_pending_time_high)), FI(1)),
                     AMPD_NDIGITS)
    ELSE FI(0)

\* ampd_t_value of process_entry: the trigger-time factor
ampd_t_value_of(trade, trigger_trade) ==
    IF cfg.ampd_use_trigger_time /\ trigger_trade # NoTrigger
       /\ ampd_trigger_time_high > 0
    THEN LET time_diff_minutes ==
                 FRatio(trade.Active_Date - trigger_trade.Active_Date, SecondsPerMinute)
             t == FDiv(FSub(FI(ampd_trigger_time_high), time_diff_minutes),
                       FI(ampd_trigger_time_high))
         IN  RoundTo(FMax(FI(0), FMin(FI(1), t)), AMPD_NDIGITS)
    ELSE FI(0)

\* process_entry from the ledger update on: the cost basis, the trade-log
\* entry, the open position and the three writes.  position_size,
\* trade_cost and the new aggregate sizes are the values the code has
\* assigned by then.
process_entry_ledger(L, trade, entry_price, now, trade_id, trade_date, ampd_p_value, ampd_t_value, position_size, trade_cost, new_long, new_short) ==
    LET isLong    == trade.Direction = "long"
        trade_fee == FMul(trade_cost, fee_rate)
        trade_entry_dict ==
            [ trade_id     |-> trade_id,
              trade_date   |-> trade_date,
              order_type   |-> IF isLong THEN "open long" ELSE "open short",
              trade_fee    |-> RoundTo(trade_fee, LOG_NDIGITS),
              price        |-> RoundTo(entry_price, LOG_NDIGITS),
              units_traded |-> RoundTo(IF isLong THEN position_size
                                       ELSE FNeg(position_size), LOG_NDIGITS),
              realized_PnL |-> None_price,
              ind_PnL      |-> FI(0),
              total_long_position  |-> RoundTo(new_long, LOG_NDIGITS),
              total_short_position |-> RoundTo(new_short, LOG_NDIGITS),
              loss_reason  |-> "None" ]
        open_position ==
            [ opening_fee    |-> trade_fee,
              trade_id       |-> trade_id,
              confirm_date   |-> trade.confirm_date,
              active_date    |-> trade.active_date,
              trade_date     |-> now,
              Completed_Date |-> trade.Completed_Date,
              Target_Price   |-> trade.Target_Price,
              Position_Size  |-> position_size,
              Direction      |-> trade.Direction,
              Open_Price     |-> entry_price,
              ampd_p_value   |-> ampd_p_value,
              ampd_t_value   |-> ampd_t_value,
              DateReached    |-> trade.DateReached,
              fib            |-> trade.fib,
              instance_id    |-> trade.instance_id,
              extreme_price  |-> trade.extreme_price,
              max_position_drawdown |->
                  IF trade.extreme_price = None_price THEN None_price
                  ELSE IF isLong
                  THEN FNeg(FAbs(FMul(FSub(entry_price, trade.extreme_price),
                                      position_size)))
                  ELSE FNeg(FAbs(FMul(FSub(trade.extreme_price, entry_price),
                                      position_size))) ]
    IN  [L EXCEPT
           !.total_long_position  = new_long,
           !.total_short_position = new_short,
           !.long_cost_basis      =
               IF ~isLong THEN @
               ELSE IF FSign(new_long) > 0
                    THEN FDiv(FAdd(FMul(@, FSub(new_long, position_size)), trade_cost),
                              new_long)
                    ELSE FI(0),
           !.short_cost_basis     =
               IF isLong THEN @
               ELSE IF FSign(new_short) > 0
                    THEN FDiv(FAdd(FMul(@, FSub(new_short, position_size)), trade_cost),
                              new_short)
                    ELSE FI(0),
           !.open_positions       = Append(@, open_position),
           !.trades_all           = Append(@, trade_entry_dict),
           !.open_positions_csv   = write_open_position(@, open_position,
                                                        L.write_failures),
           !.write_attempts       =
               Max(@, write_log_entry(0, L.write_failures).attempts)]

\* process_entry adding the size to the aggregate position of both sides
process_entry_sized_both_sides(L, trade, entry_price, now, trade_id, trade_date, ampd_p_value, ampd_t_value, position_size) ==
    process_entry_ledger(L, trade, entry_price, now, trade_id, trade_date,
                         ampd_p_value, ampd_t_value, position_size,
                         FMul(position_size, entry_price),
                         FAdd(L.total_long_position, position_size),
                         FAdd(L.total_short_position, position_size))

\* process_entry once position_size is calculated: the cost of the trade
\* and the aggregate size of its side
process_entry_sized(L, trade, entry_price, now, trade_id, trade_date, ampd_p_value, ampd_t_value, position_size) ==
    process_entry_ledger(L, trade, entry_price, now, trade_id, trade_date,
                         ampd_p_value, ampd_t_value, position_size,
                         FMul(position_size, entry_price),
                         IF trade.Direction = "long"
                         THEN FAdd(L.total_long_position, position_size)
                         ELSE L.total_long_position,
                         IF trade.Direction = "long"
                         THEN L.total_short_position
                         ELSE FAdd(L.total_short_position, position_size))

\* process_entry without the check of the position limit
process_entry_uncapped(L, trade, entry_price, now, trade_id_arg, fib_level, trigger_trade) ==
    LET trade_id   == IF trade_id_arg # NoTradeId THEN trade_id_arg
                      ELSE TradeId(L.next_uuid, None_level)
        trade_date ==
            IF fib_level # None_level /\ trade.DateReached[fib_level] # None_date
            THEN trade.DateReached[fib_level] ELSE now
    IN  IF L.raised # "None" THEN L
        ELSE IF calculate_position_size_raises THEN [L EXCEPT !.raised = "ValueError"]
        ELSE [process_entry_sized(L, trade, entry_price, now, trade_id, trade_date,
                                  ampd_p_value_of(trade),
                                  ampd_t_value_of(trade, trigger_trade),
                                  calculate_position_size(entry_price, L.cash_on_hand))
                EXCEPT !.next_uuid = IF trade_id_arg # NoTradeId THEN @ ELSE @ + 1]

\* process_entry(trade, ..., entry_price, minute_data, ..., trade_id,
\* fib_level, trigger_trade) on the locals L
process_entry(L, trade, entry_price, now, trade_id_arg, fib_level, trigger_trade) ==
    LET max_allowed_positions ==
            (cfg.MAX_LEVERAGE * 100) \div position_size_percent
        capped == /\ cfg.position_size_method = 3
                  /\ cfg.MAX_LEVERAGE > 0
                  /\ max_allowed_positions > 0
                  /\ Len(L.open_positions) >= max_allowed_positions
        trade_id   == IF trade_id_arg # NoTradeId THEN trade_id_arg
                      ELSE TradeId(L.next_uuid, None_level)
        trade_date ==
            IF fib_level # None_level /\ trade.DateReached[fib_level] # None_date
            THEN trade.DateReached[fib_level] ELSE now
    IN  IF L.raised # "None" THEN L
        ELSE IF capped THEN L
        ELSE IF calculate_position_size_raises THEN [L EXCEPT !.raised = "ValueError"]
        ELSE [process_entry_sized(L, trade, entry_price, now, trade_id, trade_date,
                                  ampd_p_value_of(trade),
                                  ampd_t_value_of(trade, trigger_trade),
                                  calculate_position_size(entry_price, L.cash_on_hand))
                EXCEPT !.next_uuid = IF trade_id_arg # NoTradeId THEN @ ELSE @ + 1]


\* the loop `for trade in active_trades` of sim_entries; tt is what
\* check_for_trigger_trades returns for the first of active_trades
RECURSIVE EnterRegular(_, _, _)
RECURSIVE EnterRegularTriggered(_, _, _, _)
EnterRegularTriggered(L, active_trades, now, tt) ==
    IF tt.raised # "None" THEN [L EXCEPT !.raised = tt.raised]
    ELSE IF ~tt.has_trigger THEN EnterRegular(L, Tail(active_trades), now)
    \* entry_price = float(trade['entry']) of a price load_instances left None
    ELSE IF Head(active_trades).entry = None_price
    THEN [L EXCEPT !.raised = "TypeError"]
    ELSE EnterRegular(process_entry(L, InstanceAsTrade(Head(active_trades)),
                                    Head(active_trades).entry, now, NoTradeId,
                                    None_level, tt.trigger),
                      Tail(active_trades), now)

EnterRegular(L, active_trades, now) ==
    IF active_trades = <<>> \/ L.raised # "None" THEN L
    ELSE EnterRegularTriggered(L, active_trades, now,
                               check_for_trigger_trades(Head(active_trades), instances))

\* the loop `for position in fib_positions` of one fib level
RECURSIVE EnterFib(_, _, _, _)
EnterFib(L, fib_positions, level, now) ==
    IF fib_positions = <<>> THEN L
    ELSE LET position == Head(fib_positions)
         IN  EnterFib(process_entry(L, PositionAsTrade(position),
                                    position.fib[level], now,
                                    TradeId(position.trade_id.uuid, level), level,
                                    NoTrigger),
                      Tail(fib_positions), level, now)

\* the four `if DD_on_fib...` blocks of sim_entries, in their order
RECURSIVE EnterFibLevels(_, _, _)
EnterFibLevels(L, k, now) ==
    IF k > Len(FibLevels) THEN L
    ELSE LET level == FibLevels[k]
             Reached(pos) ==
                 /\ pos.DateReached[level] # None_date
                 /\ compare_timestamps_ignore_seconds(pos.DateReached[level], now)
                 /\ pos.fib[level] # None_price
                 /\ pos.trade_id.fib = None_level
             fib_positions == SelectSeq(L.open_positions, Reached)
         IN  EnterFibLevels(IF level \in cfg.DD_on_fib
                            THEN EnterFib(L, fib_positions, level, now)
                            ELSE L,
                            k + 1, now)

\* sim_entries taking every instance activated by the current minute, not
\* only those activated in it
sim_entries_activated_by(L, now) ==
    LET Active(trade) ==
            /\ trade.Active_Date # None_date
            /\ TruncMinute(trade.Active_Date) <= TruncMinute(now)
        active_trades == SelectSeq(instances, Active)
    IN  EnterFibLevels(EnterRegular(L, active_trades, now), 1, now)

\* sim_entries(minute_data, relevant_instances, ...)
sim_entries(L, now) ==
    LET Active(trade) ==
            /\ trade.Active_Date # None_date
            /\ compare_timestamps_ignore_seconds(trade.Active_Date, now)
        active_trades == SelectSeq(instances, Active)
    IN  EnterFibLevels(EnterRegular(L, active_trades, now), 1, now)


(***************************************************************************)
(* sim_exits.py                                                            *)
(***************************************************************************)
NoClose == [should_close |-> FALSE, exit_price |-> None_price, reason |-> "None"]

\* scale_factor of check_advanced_max_position_drawdown
ampd_scale_factor(open_position) ==
    IF cfg.ampd_use_pending_time /\ cfg.ampd_use_trigger_time
    THEN FAdd(FMul(open_position.ampd_p_value,
                   FDiv(FI(ampd_pending_weight), FI(100))),
              FMul(open_position.ampd_t_value,
                   FSub(FI(1), FDiv(FI(ampd_pending_weight), FI(100)))))
    ELSE IF cfg.ampd_use_pending_time THEN open_position.ampd_p_value
    ELSE IF cfg.ampd_use_trigger_time THEN open_position.ampd_t_value
    ELSE Zero

\* ampd_percent of check_advanced_max_position_drawdown: the allowed
\* percentage on the sliding scale between base and max
ampd_percent_of(open_position) ==
    FMax(FI(ampd_percent_base),
         FMin(FI(ampd_percent_max),
              FAdd(FI(ampd_percent_base),
                   FMul(ampd_scale_factor(open_position),
                        FI(ampd_percent_max - ampd_percent_base)))))

\* max_allowed_loss of the drawdown checks: `percent` of the entry bankroll,
\* itself recovered from the position's size
max_allowed_loss_of(open_position, percent) ==
    FMul(FDiv(FMul(open_position.Position_Size, open_position.Open_Price),
              FDiv(FI(position_size_percent), FI(100))),
         FDiv(percent, FI(100)))

\* The drawdown checks on a live candle, past the minute of the entry.
drawdown_live(open_position, current_price_value, max_allowed_loss, name) ==
    LET position_size == open_position.Position_Size
        entry_price   == open_position.Open_Price
        isLong        == open_position.Direction = "long"
        current_pnl ==
            IF isLong THEN FMul(FSub(current_price_value, entry_price), position_size)
            ELSE FMul(FSub(entry_price, current_price_value), position_size)
        current_drawdown_pct ==
            IF isLong
            THEN FMul(FDiv(FSub(entry_price, current_price_value), entry_price), FI(100))
            ELSE FMul(FDiv(FSub(current_price_value, entry_price), entry_price), FI(100))
        instance_max_drawdown == open_position.max_position_drawdown
    IN  IF /\ instance_max_drawdown # None_price
           /\ FLe(current_drawdown_pct, instance_max_drawdown)
        THEN NoClose
        ELSE IF FLe(current_pnl, FNeg(max_allowed_loss))
        THEN [should_close |-> TRUE,
              exit_price   |-> IF isLong
                               THEN FSub(entry_price, FDiv(max_allowed_loss, position_size))
                               ELSE FAdd(entry_price, FDiv(max_allowed_loss, position_size)),
              reason       |-> name]
        ELSE NoClose

\* The drawdown checks in the minute of the entry: a position that also
\* completed in that minute is judged by its extreme_price.
drawdown_same_minute(open_position, percent, name) ==
    LET entry_price   == open_position.Open_Price
        extreme_price == open_position.extreme_price
        isLong        == open_position.Direction = "long"
        extreme_drawdown_pct ==
            IF isLong
            THEN FMul(FDiv(FSub(entry_price, extreme_price), entry_price), FI(100))
            ELSE FMul(FDiv(FSub(extreme_price, entry_price), entry_price), FI(100))
    IN  IF /\ open_position.Completed_Date # None_date
           /\ TruncMinute(open_position.Completed_Date) = TruncMinute(open_position.trade_date)
           /\ extreme_price # None_price
           /\ FGt(extreme_drawdown_pct, percent)
        THEN [should_close |-> TRUE,
              exit_price   |-> IF isLong
                               THEN FMul(entry_price, FSub(FI(1), FDiv(percent, FI(100))))
                               ELSE FMul(entry_price, FAdd(FI(1), FDiv(percent, FI(100)))),
              reason       |-> "same-minute " \o name]
        ELSE NoClose

\* The body shared by check_advanced_max_position_drawdown (percent =
\* ampd_percent) and check_max_position_drawdown (percent = mpd_percent),
\* after their first guard; `name` is the reason without its prefix.
drawdown_check(open_position, current_price, current_timestamp, percent, name) ==
    IF TruncMinute(current_timestamp) = TruncMinute(open_position.trade_date)
    THEN drawdown_same_minute(open_position, percent, name)
    ELSE drawdown_live(open_position,
                       IF open_position.Direction = "long"
                       THEN current_price.low ELSE current_price.high,
                       max_allowed_loss_of(open_position, percent), name)

\* check_advanced_max_position_drawdown(open_position, current_price, current_timestamp)
check_advanced_max_position_drawdown(open_position, current_price, current_timestamp) ==
    IF ~cfg.use_ampd_percent \/ cfg.position_size_method # 3 THEN NoClose
    ELSE drawdown_check(open_position, current_price, current_timestamp,
                        ampd_percent_of(open_position),
                        "advanced max position drawdown")

\* check_max_position_drawdown(open_position, current_price, current_timestamp)
check_max_position_drawdown(open_position, current_price, current_timestamp) ==
    IF ~cfg.use_mpd_percent \/ cfg.position_size_method # 3 THEN NoClose
    ELSE drawdown_check(open_position, current_price, current_timestamp,
                        mpd_percent, "max position drawdown")

\* check_fib_levels(minute_data, open_position): the first level, in the
\* order 0.5, 0.0, -0.5, -1.0, that is a stop and was reached this minute
RECURSIVE check_fib_levels_from(_, _, _)
check_fib_levels_from(now, open_position, k) ==
    IF k > Len(FibLevels) THEN NoClose
    ELSE LET level == FibLevels[k]
         IN  IF /\ level \in cfg.SL_on_fib
                /\ open_position.DateReached[level] # None_date
                /\ compare_timestamps_ignore_seconds(open_position.DateReached[level], now)
                /\ open_position.fib[level] # None_price
             THEN [should_close |-> TRUE, exit_price |-> open_position.fib[level],
                   reason |-> "fib" \o level \o "_exit"]
             ELSE check_fib_levels_from(now, open_position, k + 1)

check_fib_levels(now, open_position) == check_fib_levels_from(now, open_position, 1)


\* list.remove(x): the list without its first element equal to x
RECURSIVE ListRemove(_, _)
ListRemove(list, x) ==
    IF list = <<>> THEN <<>>
    ELSE IF Head(list) = x THEN Tail(list)
    ELSE <<Head(list)>> \o ListRemove(Tail(list), x)

\* close_trade from the ledger update on.  closing_fee, realized_price_pnl
\* (against the side's cost basis) and new_total (the side's aggregate size
\* less the position's) are the values the code has assigned by then.
close_trade_ledger(L, open_position, close_price, now, loss_reason, closing_fee, realized_price_pnl, new_total) ==
    LET position_size == open_position.Position_Size
        opening_fee   == open_position.opening_fee
        open_price    == open_position.Open_Price
        isLong        == open_position.Direction = "long"
        price_pnl     == IF isLong
                         THEN FMul(FSub(close_price, open_price), position_size)
                         ELSE FMul(FSub(open_price, close_price), position_size)
        ind_PnL       == FSub(FSub(price_pnl, opening_fee), closing_fee)
        realized_PnL  == FSub(FSub(realized_price_pnl, opening_fee), closing_fee)
        new_long      == IF isLong THEN new_total ELSE L.total_long_position
        new_short     == IF isLong THEN L.total_short_position ELSE new_total
        trade_entry_dict ==
            [ trade_id     |-> open_position.trade_id,
              trade_date   |-> now,
              order_type   |-> IF isLong THEN "close long" ELSE "close short",
              trade_fee    |-> RoundTo(FAdd(opening_fee, closing_fee), LOG_NDIGITS),
              price        |-> RoundTo(close_price, LOG_NDIGITS),
              units_traded |-> RoundTo(IF isLong THEN FNeg(position_size)
                                       ELSE position_size, LOG_NDIGITS),
              realized_PnL |-> RoundTo(realized_PnL, LOG_NDIGITS),
              ind_PnL      |-> RoundTo(ind_PnL, LOG_NDIGITS),
              total_long_position  |-> RoundTo(new_long, LOG_NDIGITS),
              total_short_position |-> RoundTo(new_short, LOG_NDIGITS),
              loss_reason  |-> loss_reason ]
    IN  [L EXCEPT
           !.total_long_position  = new_long,
           !.total_short_position = new_short,
           !.cash_on_hand         = FAdd(@, realized_PnL),
           !.long_cost_basis      = IF isLong /\ FIsZero(new_long) THEN Zero ELSE @,
           !.long_pnl             = IF isLong /\ FIsZero(new_long) THEN Zero ELSE @,
           !.short_cost_basis     = IF ~isLong /\ FIsZero(new_short) THEN Zero ELSE @,
           !.short_pnl            = IF ~isLong /\ FIsZero(new_short) THEN Zero ELSE @,
           !.trades_all           = Append(@, trade_entry_dict),
           !.open_positions_csv   = remove_log_entry(@, open_position.trade_id),
           !.closed_positions_csv =
               Append(@, [ trade_id   |-> open_position.trade_id,
                           entry_date |-> open_position.trade_date,
                           exit_date  |-> now ]),
           !.open_positions       = ListRemove(@, open_position)]

\* close_trade(open_position, close_price, ..., minute_data, loss_reason)
close_trade(L, open_position, close_price, now, loss_reason) ==
    close_trade_ledger(L, open_position, close_price, now, loss_reason,
        FMul(FMul(close_price, open_position.Position_Size), fee_rate),
        IF open_position.Direction = "long"
        THEN FMul(FSub(close_price, L.long_cost_basis), open_position.Position_Size)
        ELSE FMul(FSub(L.short_cost_basis, close_price), open_position.Position_Size),
        IF open_position.Direction = "long"
        THEN FSub(L.total_long_position, open_position.Position_Size)
        ELSE FSub(L.total_short_position, open_position.Position_Size))

\* timedelta(hours=STATIC_TIME_CAPIT_DURATION), in seconds
StaticTimeCapitSeconds ==
    (STATIC_TIME_CAPIT_DURATION[1] * 3600) \div STATIC_TIME_CAPIT_DURATION[2]

\* The exit conditions of one open position in one minute, each evaluated
\* on its own: what sim_exits' cascade chooses among.
ExitConditions(open_position, minute_data, now) ==
    [ advanced   |-> check_advanced_max_position_drawdown(open_position, minute_data, now),
      static     |-> check_max_position_drawdown(open_position, minute_data, now),
      fib        |-> check_fib_levels(now, open_position),
      time_capit |-> /\ cfg.USE_STATIC_TIME_CAPIT
                     /\ now - open_position.trade_date >= StaticTimeCapitSeconds,
      completion |-> compare_timestamps_ignore_seconds(open_position.Completed_Date, now) ]

\* the cascade without its last block, the successful completion
exit_cascade_no_completion(LC, open_position, minute_data, now, c) ==
    LET dd   == IF cfg.use_ampd_percent /\ c.advanced.should_close THEN c.advanced
                ELSE IF cfg.use_mpd_percent THEN c.static
                ELSE NoClose
        \* (should_close, close_price, loss_reason) after each block
        afterFib  == IF ~dd.should_close /\ c.fib.should_close
                     THEN <<TRUE, c.fib.exit_price, c.fib.reason>>
                     ELSE <<dd.should_close, LC.close_price, dd.reason>>
        afterTime == IF ~afterFib[1] /\ c.time_capit
                     THEN <<TRUE, minute_data.close, "static time capit">>
                     ELSE afterFib
        final     == afterTime
        entry     == [ trade_id    |-> open_position.trade_id,
                       position    |-> open_position,
                       minute      |-> now,
                       candle      |-> minute_data,
                       conditions  |-> c,
                       exit_price  |-> dd.exit_price,
                       close_price |-> final[2],
                       loss_reason |-> final[3],
                       cost_basis  |-> IF open_position.Direction = "long"
                                       THEN LC.L.long_cost_basis
                                       ELSE LC.L.short_cost_basis,
                       log_index   |-> Len(LC.L.trades_all) + 1 ]
    IN  IF final[1]
        THEN [L |-> [close_trade(LC.L, open_position, final[2], now, final[3])
                        EXCEPT !.exit_log = Append(@, entry)],
              close_price |-> final[2]]
        ELSE [L |-> LC.L, close_price |-> final[2]]

\* The cascade of sim_exits over the conditions c of one open position, and
\* the close it leads to.
exit_cascade(LC, open_position, minute_data, now, c) ==
    LET dd   == IF cfg.use_ampd_percent /\ c.advanced.should_close THEN c.advanced
                ELSE IF cfg.use_mpd_percent THEN c.static
                ELSE NoClose
        \* (should_close, close_price, loss_reason) after each block
        afterFib  == IF ~dd.should_close /\ c.fib.should_close
                     THEN <<TRUE, c.fib.exit_price, c.fib.reason>>
                     ELSE <<dd.should_close, LC.close_price, dd.reason>>
        afterTime == IF ~afterFib[1] /\ c.time_capit
                     THEN <<TRUE, minute_data.close, "static time capit">>
                     ELSE afterFib
        final     == IF ~afterTime[1] /\ c.completion
                     THEN <<TRUE, open_position.Target_Price, "None">>
                     ELSE afterTime
        entry     == [ trade_id    |-> open_position.trade_id,
                       position    |-> open_position,
                       minute      |-> now,
                       candle      |-> minute_data,
                       conditions  |-> c,
                       exit_price  |-> dd.exit_price,
                       close_price |-> final[2],
                       loss_reason |-> final[3],
                       cost_basis  |-> IF open_position.Direction = "long"
                                       THEN LC.L.long_cost_basis
                                       ELSE LC.L.short_cost_basis,
                       log_index   |-> Len(LC.L.trades_all) + 1 ]
    IN  IF final[1]
        THEN [L |-> [close_trade(LC.L, open_position, final[2], now, final[3])
                        EXCEPT !.exit_log = Append(@, entry)],
              close_price |-> final[2]]
        ELSE [L |-> LC.L, close_price |-> final[2]]

\* One iteration of `for open_position in open_positions[:]` of sim_exits.
\* LC is the locals L together with the function's variable close_price,
\* which an iteration leaves as it last assigned it.
exit_step(LC, open_position, minute_data, now) ==
    IF LC.L.raised # "None" THEN LC
    ELSE exit_cascade(LC, open_position, minute_data, now,
                      ExitConditions(open_position, minute_data, now))

RECURSIVE exit_loop(_, _, _, _)
exit_loop(LC, positions, minute_data, now) ==
    IF positions = <<>> THEN LC
    ELSE exit_loop(exit_step(LC, Head(positions), minute_data, now),
                   Tail(positions), minute_data, now)

\* sim_exits(minute_data, trade_log, open_positions, ...)
sim_exits(L, minute_data, now) ==
    exit_loop([L |-> L, close_price |-> minute_data.close],
              L.open_positions, minute_data, now).L


(***************************************************************************)
(* Inputs: the feature switches, the instance files and the candle file.   *)
(***************************************************************************)
MaxMinute == 3
MaxResumes == 1
Minutes == 0..MaxMinute

cfg_all_exits ==
    [ use_ampd_percent |-> TRUE, ampd_use_pending_time |-> TRUE,
      ampd_use_trigger_time |-> FALSE, use_mpd_percent |-> TRUE,
      SL_on_fib |-> {"0.5", "0.0"}, DD_on_fib |-> {},
      USE_STATIC_TIME_CAPIT |-> TRUE, MAX_LEVERAGE |-> 0,
      position_size_method |-> position_size_method,
      USE_LOW_BANKROLL_TERMINATION |-> FALSE,
      USE_LOW_VOLUME_TERMINATION |-> FALSE, tt |-> {} ]

cfg_fib_entries ==
    [ use_ampd_percent |-> FALSE, ampd_use_pending_time |-> TRUE,
      ampd_use_trigger_time |-> TRUE, use_mpd_percent |-> TRUE,
      SL_on_fib |-> {}, DD_on_fib |-> {"0.5"},
      USE_STATIC_TIME_CAPIT |-> FALSE, MAX_LEVERAGE |-> 0,
      position_size_method |-> position_size_method,
      USE_LOW_BANKROLL_TERMINATION |-> FALSE,
      USE_LOW_VOLUME_TERMINATION |-> FALSE, tt |-> {} ]

cfg_advanced_only ==
    [ use_ampd_percent |-> TRUE, ampd_use_pending_time |-> TRUE,
      ampd_use_trigger_time |-> TRUE, use_mpd_percent |-> FALSE,
      SL_on_fib |-> {}, DD_on_fib |-> {},
      USE_STATIC_TIME_CAPIT |-> FALSE, MAX_LEVERAGE |-> 0,
      position_size_method |-> position_size_method,
      USE_LOW_BANKROLL_TERMINATION |-> FALSE,
      USE_LOW_VOLUME_TERMINATION |-> FALSE, tt |-> {} ]

cfg_completion_only ==
    [ use_ampd_percent |-> FALSE, ampd_use_pending_time |-> TRUE,
      ampd_use_trigger_time |-> FALSE, use_mpd_percent |-> FALSE,
      SL_on_fib |-> {}, DD_on_fib |-> {},
      USE_STATIC_TIME_CAPIT |-> FALSE, MAX_LEVERAGE |-> 0,
      position_size_method |-> position_size_method,
      USE_LOW_BANKROLL_TERMINATION |-> FALSE,
      USE_LOW_VOLUME_TERMINATION |-> FALSE, tt |-> {} ]

\* MAX_LEVERAGE 1 with position_size_percent 50: two positions at most
cfg_leverage ==
    [ use_ampd_percent |-> FALSE, ampd_use_pending_time |-> TRUE,
      ampd_use_trigger_time |-> FALSE, use_mpd_percent |-> FALSE,
      SL_on_fib |-> {}, DD_on_fib |-> {"0.5", "0.0"},
      USE_STATIC_TIME_CAPIT |-> FALSE, MAX_LEVERAGE |-> 1,
      position_size_method |-> position_size_method,
      USE_LOW_BANKROLL_TERMINATION |-> FALSE,
      USE_LOW_VOLUME_TERMINATION |-> FALSE, tt |-> {} ]

\* the low-bankroll and the low-volume terminations, and a position size
\* mode outside 1, 2, 3
cfg_low_bankroll == [cfg_completion_only EXCEPT !.USE_LOW_BANKROLL_TERMINATION = TRUE]
cfg_low_volume   == [cfg_completion_only EXCEPT !.USE_LOW_VOLUME_TERMINATION = TRUE]
cfg_invalid_mode == [cfg_completion_only EXCEPT !.position_size_method = 4]

\* the trigger-trade filter: the fixed-minutes mode alone, and together
\* with the same-minute mode
cfg_tt_minutes == [cfg_advanced_only EXCEPT !.tt = {"within_x_minutes"}]
cfg_tt_same_minutes ==
    [cfg_completion_only EXCEPT !.tt = {"same_minute", "within_x_minutes"}]

Configs ==
    {cfg_all_exits, cfg_fib_entries, cfg_advanced_only, cfg_completion_only,
     cfg_leverage, cfg_low_bankroll, cfg_low_volume, cfg_invalid_mode,
     cfg_tt_minutes, cfg_tt_same_minutes}

\* The failing attempts in a row offered for a write to open_positions.csv:
\* none, fewer than max_retries, max_retries and more.
WriteFailures == {0, 2, max_retries, max_retries + 2}

NoDates == [l \in FibLevelSet |-> None_date]

\* fib0.5, fib0.0, fib-0.5, fib-1.0 of an instance: from the entry towards
\* the adverse side in steps of 1/2
FibPrices(entry, adverse) ==
    [l \in FibLevelSet |->
        LET k == CASE l = "0.5" -> 1 [] l = "0.0" -> 2 [] l = "-0.5" -> 3 [] OTHER -> 4
        IN  FAdd(entry, FMul(FI(k * adverse), FRatio(1, 2)))]

PendingDays == 50

\* A long that activates in minute 0, reaches fib0.5 and fib0.0 in minute 1
\* and completes in minute 2.
inst_L1 ==
    [ instance_id |-> "L1", direction |-> "long", entry |-> FI(5), target |-> FI(6),
      confirm_date |-> MinuteTs(0) + 5 - PendingDays * SecondsPerDay,
      Active_Date |-> MinuteTs(0) + 5, Completed_Date |-> MinuteTs(2) + 10,
      DateReached |-> [NoDates EXCEPT !["0.5"] = MinuteTs(1) + 20,
                                      !["0.0"] = MinuteTs(1) + 30],
      fib |-> FibPrices(FI(5), 0 - 1), extreme_price |-> FI(4) ]

\* A long that activates in minute 1 and never completes.
inst_L2 ==
    [ instance_id |-> "L2", direction |-> "long", entry |-> FI(4), target |-> FI(5),
      confirm_date |-> MinuteTs(1) - SecondsPerDay,
      Active_Date |-> MinuteTs(1), Completed_Date |-> None_date,
      DateReached |-> NoDates,
      fib |-> FibPrices(FI(4), 0 - 1), extreme_price |-> FRatio(7, 2) ]

\* A long that activates in minute 1 and completes in minute 3.
inst_L3 ==
    [ instance_id |-> "L3", direction |-> "long", entry |-> FI(6), target |-> FI(7),
      confirm_date |-> MinuteTs(1) + 15 - SecondsPerDay,
      Active_Date |-> MinuteTs(1) + 15, Completed_Date |-> MinuteTs(3) + 40,
      DateReached |-> NoDates,
      fib |-> FibPrices(FI(6), 0 - 1), extreme_price |-> FRatio(11, 2) ]

\* A short that activates and completes in minute 1, after an adverse
\* excursion to 6.
inst_S1 ==
    [ instance_id |-> "S1", direction |-> "short", entry |-> FI(5), target |-> FI(4),
      confirm_date |-> MinuteTs(1) + 2 - PendingDays * SecondsPerDay,
      Active_Date |-> MinuteTs(1) + 2, Completed_Date |-> MinuteTs(1) + 30,
      DateReached |-> NoDates,
      fib |-> FibPrices(FI(5), 1), extreme_price |-> FI(6) ]

\* A long that activates in minute 2, after S1 is closed, and never completes.
inst_L4 ==
    [ instance_id |-> "L4", direction |-> "long", entry |-> FI(5), target |-> FI(6),
      confirm_date |-> MinuteTs(2) - SecondsPerDay,
      Active_Date |-> MinuteTs(2), Completed_Date |-> None_date,
      DateReached |-> NoDates,
      fib |-> FibPrices(FI(5), 0 - 1), extreme_price |-> FRatio(9, 2) ]

\* A long confirmed PendingDays before it activates in minute 2: L2,
\* confirmed and activated in between, is a trigger for it.
inst_T1 ==
    [inst_L4 EXCEPT !.instance_id = "T1",
                    !.confirm_date = MinuteTs(2) - PendingDays * SecondsPerDay]

\* A long whose confirm date is a day after its Active Date in minute 2.
inst_L5 ==
    [inst_L4 EXCEPT !.instance_id = "L5",
                    !.confirm_date = MinuteTs(2) + SecondsPerDay]

\* A short that activates in minute 0 and whose price runs far against it:
\* fib0.5 = 17 is reached in minute 1.  It never completes.
inst_S9 ==
    [ instance_id |-> "S9", direction |-> "short", entry |-> FI(5), target |-> FI(4),
      confirm_date |-> MinuteTs(0) - SecondsPerDay,
      Active_Date |-> MinuteTs(0), Completed_Date |-> None_date,
      DateReached |-> [NoDates EXCEPT !["0.5"] = MinuteTs(1)],
      fib |-> [l \in FibLevelSet |-> FI(17)], extreme_price |-> FI(17) ]

\* An instance file row without an entry price (load_instances leaves it
\* None), ahead of L2 in the same minute.
inst_M1 == [inst_L2 EXCEPT !.instance_id = "M1", !.entry = None_price]

\* The instance files offered to a simulation, in file order.
Universes ==
    { <<inst_L1>>, <<inst_S1>>, <<inst_L1, inst_L3>>, <<inst_L1, inst_L2>>,
      <<inst_L1, inst_S1>>, <<inst_L2, inst_S1>>, <<inst_L1, inst_L2, inst_L3>>,
      <<inst_M1, inst_L2>>, <<inst_S1, inst_L4>>, <<inst_L2, inst_T1>>,
      <<inst_L5>>, <<inst_S9, inst_L4>> }

candle_calm  == [high |-> FI(5), low |-> FI(5), close |-> FI(5)]
candle_drop  == [high |-> FI(5), low |-> FI(4), close |-> FRatio(9, 2)]
candle_spike == [high |-> FI(6), low |-> FI(5), close |-> FRatio(11, 2)]

\* The candle files offered: calm, but for at most one eventful minute.
Tapes ==
    {[m \in Minutes |-> candle_calm]} \cup
    {[m \in Minutes |-> IF m = k THEN c ELSE candle_calm] :
        k \in Minutes, c \in {candle_drop, candle_spike}}


(***************************************************************************)
(* simulation.py, main.py, initialization.py                               *)
(***************************************************************************)
\* minute_log_entry of run_simulation
MinuteSnapshot(L, now, close_price) ==
    LET total_bankroll == FAdd(FAdd(L.cash_on_hand, L.long_pnl), L.short_pnl)
    IN  [ timestamp            |-> now,
          total_bankroll       |-> RoundTo(total_bankroll, LOG_NDIGITS),
          cash_on_hand         |-> RoundTo(L.cash_on_hand, LOG_NDIGITS),
          total_long_position  |-> RoundTo(L.total_long_position, LOG_NDIGITS),
          long_cost_basis      |-> RoundTo(L.long_cost_basis, LOG_NDIGITS),
          long_pnl             |-> RoundTo(L.long_pnl, LOG_NDIGITS),
          total_short_position |-> RoundTo(L.total_short_position, LOG_NDIGITS),
          short_cost_basis     |-> RoundTo(L.short_cost_basis, LOG_NDIGITS),
          short_pnl            |-> RoundTo(L.short_pnl, LOG_NDIGITS),
          close                |-> RoundTo(close_price, LOG_NDIGITS) ]

\* long_pnl and short_pnl of run_simulation: the open aggregates marked to
\* the candle's close
MarkToMarket(L, close_price) ==
    [L EXCEPT
       !.long_pnl  = FMul(L.total_long_position, FSub(close_price, L.long_cost_basis)),
       !.short_pnl = FMul(L.total_short_position, FSub(L.short_cost_basis, close_price))]

\* The entries of one minute: sim_entries is called while the number of open
\* positions is under the leverage cap.
MinuteEntries(L, now) ==
    LET max_allowed_positions == (cfg.MAX_LEVERAGE * 100) \div position_size_percent
        unlimited == ~(cfg.position_size_method = 3 /\ cfg.MAX_LEVERAGE > 0)
    IN  IF unlimited \/ Len(L.open_positions) < max_allowed_positions
        THEN sim_entries(L, now) ELSE L

\* the loop body with sim_exits called ahead of sim_entries
MinuteStep_exits_first(L, m) ==
    MarkToMarket(MinuteEntries(sim_exits(L, candles[m], MinuteTs(m)), MinuteTs(m)),
                 candles[m].close)

\* The body of `for minute_data in candles_chunk` up to the mark-to-market:
\* entries, then exits, then the unrealized PnL at the candle's close.
MinuteStep(L, m) ==
    MarkToMarket(sim_exits(MinuteEntries(L, MinuteTs(m)), candles[m], MinuteTs(m)),
                 candles[m].close)

Fresh ==
    [ total_long_position  |-> Zero,
      total_short_position |-> Zero,
      long_cost_basis      |-> Zero,
      short_cost_basis     |-> Zero,
      cash_on_hand         |-> FI(starting_bankroll),
      long_pnl             |-> Zero,
      short_pnl            |-> Zero,
      open_positions       |-> <<>>,
      trades_all           |-> <<>>,
      open_positions_csv   |-> [exists |-> FALSE, header |-> "keys", rows |-> <<>>],
      exit_log             |-> <<>>,
      next_uuid            |-> 1,
      closed_positions_csv |-> <<>>,
      write_failures       |-> 0,
      write_attempts       |-> 0,
      raised               |-> "None" ]

\* LOW_BANKROLL_THRESHOLD and LOW_VOLUME_THRESHOLD of run_simulation
LOW_BANKROLL_THRESHOLD == FRatio(97, 100)
LOW_VOLUME_THRESHOLD == 1

\* The candle file starts FirstOfNextMonth minutes before the end of a
\* month; MonthOf is timestamp.strftime('%Y-%m') of the candle of minute m.
FirstOfNextMonth == 2
MonthOf(m) == IF m < FirstOfNextMonth THEN 1 ELSE 2

NoMarker == [reason |-> "None", time |-> None_date]
NoBoundary == [month |-> 0, still_open |-> 0, closed |-> 0, stopped |-> FALSE]

\* total_bankroll of run_simulation's loop body
total_bankroll_of(L) == FAdd(FAdd(L.cash_on_hand, L.long_pnl), L.short_pnl)

\* the low-bankroll test on the cash alone, the unrealized PnL left out
low_bankroll_cash_only(L) ==
    /\ cfg.USE_LOW_BANKROLL_TERMINATION
    /\ FLt(L.cash_on_hand, FMul(FI(starting_bankroll), LOW_BANKROLL_THRESHOLD))

\* the test of the low-bankroll termination, after the snapshot is written
low_bankroll(L) ==
    /\ cfg.USE_LOW_BANKROLL_TERMINATION
    /\ FLt(total_bankroll_of(L), FMul(FI(starting_bankroll), LOW_BANKROLL_THRESHOLD))

\* position.get('trade_date', '') of a row csv.DictReader yields from
\* open_positions.csv: under the header of open_positions_columns the
\* fourth value of a row, its active_date, stands in the column trade_date
OpenRowTradeDate(file, row) ==
    IF file.header = "keys" THEN row.trade_date ELSE row.active_date

\* position.get('trade_date', '') of a row of closed_positions.csv
ClosedRowTradeDate(row) ==
    IF "trade_date" \in DOMAIN row THEN row.trade_date ELSE None_date

\* trade_count of check_monthly_trade_volume(month, ...)
trade_count(month) ==
    LET OpenInMonth(row) ==
            /\ OpenRowTradeDate(open_positions_csv, row) # None_date
            /\ MonthOf(MinuteOf(OpenRowTradeDate(open_positions_csv, row))) = month
        ClosedInMonth(row) ==
            /\ ClosedRowTradeDate(row) # None_date
            /\ MonthOf(MinuteOf(ClosedRowTradeDate(row))) = month
    IN  (IF open_positions_csv.exists
         THEN Len(SelectSeq(open_positions_csv.rows, OpenInMonth)) ELSE 0)
        + Len(SelectSeq(closed_positions_csv, ClosedInMonth))

\* check_monthly_trade_volume(previous_month, ...) says should_terminate
check_monthly_trade_volume(month) == trade_count(month) < LOW_VOLUME_THRESHOLD

\* the loop over monthly_chunks is at a chunk with a previous_month, and
\* the low-volume rule is on
LowVolumeDue ==
    /\ cfg.USE_LOW_VOLUME_TERMINATION
    /\ run.processed > 0
    /\ MonthOf(next_minute) # MonthOf(next_minute - 1)

\* history: the month boundary the run is at, with the positions opened in
\* the month behind that are still open and the closes of that month
BoundaryRecord(stopped) ==
    LET month == MonthOf(next_minute - 1)
        StillOpen(pos) == MonthOf(MinuteOf(pos.trade_date)) = month
        ClosedIn(e) == MonthOf(MinuteOf(e.minute)) = month
    IN  [ month      |-> month,
          still_open |-> Len(SelectSeq(open_positions, StillOpen)),
          closed     |-> Len(SelectSeq(exit_log, ClosedIn)),
          stopped    |-> stopped ]

\* main.py, choice 'N': a new run from starting_date to ending_date
Init ==
    /\ cfg \in Configs
    /\ instances \in Universes
    /\ candles \in Tapes
    /\ ending_date \in Minutes
    /\ write_failures \in IF cfg = cfg_completion_only THEN WriteFailures ELSE {0}
    /\ pc = "running"
    /\ next_minute = 0
    /\ cash_on_hand = Fresh.cash_on_hand
    /\ total_long_position = Zero
    /\ total_short_position = Zero
    /\ long_cost_basis = Zero
    /\ short_cost_basis = Zero
    /\ long_pnl = Zero
    /\ short_pnl = Zero
    /\ open_positions = <<>>
    /\ trades_all = <<>>
    /\ open_positions_csv = Fresh.open_positions_csv
    /\ closed_positions_csv = <<>>
    /\ marker = NoMarker
    /\ write_attempts = 0
    /\ analysis_log = <<>>
    /\ exit_log = <<>>
    /\ next_uuid = 1
    /\ run = [number |-> 1, restored |-> 0 - 1, first |-> 0 - 1, processed |-> 0,
              boundary |-> NoBoundary, total_wins |-> 0, total_losses |-> 0]
    /\ onepass = [L |-> Fresh, minute |-> 0 - 1]

\* ind_PnL of close_trade for a close recorded in the exit log: the sign
\* decides is_win and is_loss
ind_PnL_of(e) ==
    FSub(FSub(IF e.position.Direction = "long"
              THEN FMul(FSub(e.close_price, e.position.Open_Price),
                        e.position.Position_Size)
              ELSE FMul(FSub(e.position.Open_Price, e.close_price),
                        e.position.Position_Size),
              e.position.opening_fee),
         FMul(FMul(e.close_price, e.position.Position_Size), fee_rate))

\* exit_wins (sign 1) and exit_losses (sign -1) of sim_exits: the closes of
\* the minute, those recorded after the first `from` of the log
exit_count(log, from, sign) ==
    Cardinality({k \in (from + 1)..Len(log) : FSign(ind_PnL_of(log[k])) = sign})

\* A row of trades_all.csv as csv.DictReader returns it.  The header of the
\* file is that of its first row, an open, with 19 columns; a close is
\* written with entry_date and exit_date in place of trade_date, so under
\* that header its 'order_type' is the completed date and its 'ind_PnL' is
\* the balance.
TradesAllCsvRow(row) ==
    IF row.order_type \in {"close long", "close short"}
    THEN [order_type |-> "completed_date",
          ind_PnL    |-> RoundTo(FSub(row.total_long_position,
                                      row.total_short_position), LOG_NDIGITS)]
    ELSE [order_type |-> row.order_type, ind_PnL |-> row.ind_PnL]

\* the win (sign 1) and loss (sign -1) counters run_simulation loads from
\* trades_all.csv before its loop
reload_count(trades, sign) ==
    Cardinality({k \in 1..Len(trades) :
                    /\ TradesAllCsvRow(trades[k]).order_type
                           \in {"close long", "close short"}
                    /\ FSign(TradesAllCsvRow(trades[k]).ind_PnL) = sign})

\* One iteration of run_simulation's loop over day_candles (the candles with
\* starting_date <= timestamp <= ending_date), reached past the low-volume
\* check when the candle is the first of a monthly chunk.  An exception
\* raised in sim_entries or sim_exits ends the program inside the iteration.
SimulateMinute ==
    /\ pc = "running"
    /\ next_minute <= ending_date
    /\ ~(LowVolumeDue /\ check_monthly_trade_volume(MonthOf(next_minute - 1)))
    /\ \E m \in {next_minute} : \E L \in {MinuteStep(Locals, next_minute)} :
           /\ total_long_position'  = L.total_long_position
           /\ total_short_position' = L.total_short_position
           /\ long_cost_basis'      = L.long_cost_basis
           /\ short_cost_basis'     = L.short_cost_basis
           /\ cash_on_hand'         = L.cash_on_hand
           /\ long_pnl'             = L.long_pnl
           /\ short_pnl'            = L.short_pnl
           /\ open_positions'       = L.open_positions
           /\ trades_all'           = L.trades_all
           /\ open_positions_csv'   = L.open_positions_csv
           /\ closed_positions_csv' = L.closed_positions_csv
           /\ write_attempts'       = L.write_attempts
           /\ exit_log'             = L.exit_log
           /\ next_uuid'            = L.next_uuid
           /\ IF L.raised # "None"
              THEN /\ pc' = "crashed"
                   /\ UNCHANGED <<analysis_log, next_minute, marker, onepass>>
                   /\ run' = [run EXCEPT !.boundary = IF LowVolumeDue
                                                      THEN BoundaryRecord(FALSE) ELSE @]
              ELSE /\ analysis_log' =
                          Append(analysis_log,
                                 MinuteSnapshot(L, MinuteTs(m), candles[m].close))
                   /\ next_minute' = m + 1
                   /\ run' = [run EXCEPT !.first = IF @ < 0 THEN m ELSE @,
                                         !.processed = @ + 1,
                                         !.total_wins =
                                             @ + exit_count(L.exit_log, Len(exit_log), 1),
                                         !.total_losses =
                                             @ + exit_count(L.exit_log, Len(exit_log), 0 - 1),
                                         !.boundary = IF LowVolumeDue
                                                      THEN BoundaryRecord(FALSE) ELSE @]
                   /\ onepass' = IF m > onepass.minute
                                 THEN [L |-> MinuteStep(onepass.L, m), minute |-> m]
                                 ELSE onepass
                   /\ pc' = IF low_bankroll(L) THEN "terminated" ELSE "running"
                   /\ marker' = IF low_bankroll(L)
                                THEN [reason |-> "low bankroll", time |-> MinuteTs(m)]
                                ELSE marker
    /\ UNCHANGED <<cfg, instances, candles, ending_date, write_failures>>

\* The low-volume termination at the head of a monthly chunk:
\* create_termination_marker and return, before any candle of the chunk.
LowVolumeTermination ==
    /\ pc = "running"
    /\ next_minute <= ending_date
    /\ LowVolumeDue
    /\ check_monthly_trade_volume(MonthOf(next_minute - 1))
    /\ pc' = "terminated"
    /\ marker' = [reason |-> "low volume", time |-> MinuteTs(next_minute)]
    /\ run' = [run EXCEPT !.boundary = BoundaryRecord(TRUE)]
    /\ UNCHANGED <<cfg, instances, candles, ending_date, next_minute, cash_on_hand,
                   total_long_position, total_short_position, long_cost_basis,
                   short_cost_basis, long_pnl, short_pnl, open_positions,
                   trades_all, open_positions_csv, analysis_log, exit_log,
                   next_uuid, onepass, closed_positions_csv, write_failures,
                   write_attempts>>

\* The end of run_simulation: the loop is over, the summary report is
\* generated.
Finish ==
    /\ pc = "running"
    /\ next_minute > ending_date
    /\ pc' = "done"
    /\ UNCHANGED <<cfg, instances, candles, ending_date, next_minute, cash_on_hand,
                   total_long_position, total_short_position, long_cost_basis,
                   short_cost_basis, long_pnl, short_pnl, open_positions,
                   trades_all, open_positions_csv, analysis_log, exit_log,
                   next_uuid, run, onepass, closed_positions_csv, marker,
                   write_failures, write_attempts>>

\* load_state: the open positions read back from open_positions.csv.  A row
\* is split on commas and zipped with the header; under the header of
\* open_positions_columns its 'confirm_date' is the row's trade_id, which
\* strptime rejects, and the row is skipped.
LoadedOpenPositions(file) ==
    IF file.exists /\ file.header = "keys" THEN file.rows ELSE <<>>

\* main.py, choice 'C': load_state, a new ending date, and run_simulation
\* from current_date = the timestamp of the last MinuteSnapshot.  Without a
\* snapshot load_state returns None: the fallback resets the Ledger and
\* calls run_simulation(instances_by_minute, candles, ...), two names this
\* branch never assigned, and the program ends with NameError.
Continue ==
    /\ pc \in {"done", "terminated", "crashed"}
    /\ run.number <= MaxResumes
    /\ IF analysis_log = <<>>
       THEN /\ cash_on_hand'         = Fresh.cash_on_hand
            /\ total_long_position'  = Zero
            /\ long_cost_basis'      = Zero
            /\ total_short_position' = Zero
            /\ short_cost_basis'     = Zero
            /\ open_positions'       = <<>>
            /\ run' = [number |-> run.number + 1, restored |-> 0 - 1,
                       first |-> 0 - 1, processed |-> 0,
                       boundary |-> NoBoundary,
                       total_wins |-> 0, total_losses |-> 0]
            /\ pc' = "crashed"
            /\ UNCHANGED <<ending_date, next_minute, long_pnl, short_pnl>>
       ELSE /\ \E new_end \in Minutes :
                  /\ new_end >= ending_date
                  /\ ending_date' = new_end
            /\ \E last \in {analysis_log[Len(analysis_log)]} :
                  /\ cash_on_hand'         = last.cash_on_hand
                  /\ total_long_position'  = last.total_long_position
                  /\ long_cost_basis'      = last.long_cost_basis
                  /\ total_short_position' = last.total_short_position
                  /\ short_cost_basis'     = last.short_cost_basis
                  /\ long_pnl'             = Zero
                  /\ short_pnl'            = Zero
                  /\ open_positions'       = LoadedOpenPositions(open_positions_csv)
                  /\ next_minute'          = MinuteOf(last.timestamp)
                  /\ run' = [number |-> run.number + 1,
                             restored |-> MinuteOf(last.timestamp),
                             first |-> 0 - 1, processed |-> 0,
                             boundary |-> NoBoundary,
                             total_wins |-> reload_count(trades_all, 1),
                             total_losses |-> reload_count(trades_all, 0 - 1)]
            /\ pc' = "running"
    /\ UNCHANGED <<cfg, instances, candles, trades_all, open_positions_csv,
                   analysis_log, exit_log, next_uuid, onepass,
                   closed_positions_csv, marker, write_failures, write_attempts>>

Next == SimulateMinute \/ LowVolumeTermination \/ Finish \/ Continue

Spec == Init /\ [][Next]_vars


(***************************************************************************)
(* Properties.                                                             *)
(***************************************************************************)
\* one unit of the last digit of a logged number
Tolerance == FRatio(1, 10^LOG_NDIGITS)

\* x and y differ by at most n units of the last logged digit
Near(x, y, n) == FLe(FAbs(FSub(x, y)), FMul(FI(n), Tolerance))

\* sum of 'Position Size' over the positions of one direction
RECURSIVE SumSizes(_, _)
SumSizes(positions, direction) ==
    IF positions = <<>> THEN Zero
    ELSE FAdd(IF Head(positions).Direction = direction
              THEN Head(positions).Position_Size ELSE Zero,
              SumSizes(Tail(positions), direction))

\* C1 - Conservation: after every simulated minute total_long_position
\* equals the sum of 'Position Size' over the open long positions, and
\* total_short_position the sum over the open short positions (up to the
\* rounding of float sums).
C1_Conservation ==
    run.processed > 0 =>
        /\ Near(total_long_position, SumSizes(open_positions, "long"), 1)
        /\ Near(total_short_position, SumSizes(open_positions, "short"), 1)

\* C2 - Cost-basis invariant: in every reachable Ledger state, whenever
\* total_long_position is 0 the long_cost_basis is 0, and whenever
\* total_short_position is 0 the short_cost_basis is 0.
C2_CostBasis ==
    /\ FIsZero(total_long_position) => FIsZero(long_cost_basis)
    /\ FIsZero(total_short_position) => FIsZero(short_cost_basis)

\* C3 - At-most-one-open: no two entries of the open-position list have the
\* same trade_id, regular and fib entries alike.
C3_AtMostOneOpen ==
    \A i, j \in 1..Len(open_positions) :
        i # j => open_positions[i].trade_id # open_positions[j].trade_id

\* what identifies an open position across two simulations of the same
\* inputs (uuids are drawn afresh by each)
PositionKey(pos) ==
    [instance_id |-> pos.instance_id, fib |-> pos.trade_id.fib,
     Direction |-> pos.Direction, Open_Price |-> pos.Open_Price]

KeysOf(positions) == {PositionKey(positions[i]) : i \in 1..Len(positions)}

\* C4 - Idempotent resume: a simulation stopped after [t0, t1], resumed from
\* the persisted state and run up to t2 ends with the same Ledger (cash,
\* both aggregate sizes, both cost bases, up to the rounding of the
\* persisted numbers) and the same open positions as one pass over [t0, t2].
C4_IdempotentResume ==
    (pc = "done" /\ run.number > 1) =>
        /\ Near(cash_on_hand, onepass.L.cash_on_hand, 2)
        /\ Near(total_long_position, onepass.L.total_long_position, 2)
        /\ Near(total_short_position, onepass.L.total_short_position, 2)
        /\ Near(long_cost_basis, onepass.L.long_cost_basis, 2)
        /\ Near(short_cost_basis, onepass.L.short_cost_basis, 2)
        /\ Len(open_positions) = Len(onepass.L.open_positions)
        /\ KeysOf(open_positions) = KeysOf(onepass.L.open_positions)

\* C5 - The first minute a resumed run processes is the minute after the
\* timestamp restored from the last MinuteSnapshot; the restored minute is
\* not processed again.
C5_ResumeStartsAfterRestored ==
    (run.number > 1 /\ run.first >= 0) => run.first = run.restored + 1

\* C6 - Monotonic time: the MinuteSnapshots appended to the analysis log
\* over a whole simulation, continued runs included, are strictly
\* increasing in timestamp.
C6_MonotonicTime ==
    \A i \in 1..(Len(analysis_log) - 1) :
        analysis_log[i].timestamp < analysis_log[i + 1].timestamp

IsOpenRow(row) == row.order_type \in {"open long", "open short"}
IsCloseRow(row) == row.order_type \in {"close long", "close short"}

\* C7 - Fee symmetry: for every position opened and closed, the trade_fee of
\* its 'open' entry plus the trade_fee of its 'close' entry equals
\* entry_price*size*fee_rate + exit_price*size*fee_rate, each fee counted
\* once (up to the rounding of the logged numbers).
C7_FeeSymmetry ==
    \A i, j \in 1..Len(trades_all) :
        (/\ i < j
         /\ IsOpenRow(trades_all[i])
         /\ IsCloseRow(trades_all[j])
         /\ trades_all[i].trade_id = trades_all[j].trade_id)
        => Near(FAdd(trades_all[i].trade_fee, trades_all[j].trade_fee),
                FAdd(FMul(FMul(trades_all[i].price, FAbs(trades_all[i].units_traded)),
                          fee_rate),
                     FMul(FMul(trades_all[j].price, FAbs(trades_all[j].units_traded)),
                          fee_rate)),
                3)

\* the reason and the price of the highest-priority exit condition that
\* holds for the position of an exit_log entry
HighestPriority(e) ==
    LET c == e.conditions
    IN  IF c.advanced.should_close THEN <<c.advanced.reason, c.advanced.exit_price>>
        ELSE IF c.static.should_close THEN <<c.static.reason, c.static.exit_price>>
        ELSE IF c.fib.should_close THEN <<c.fib.reason, c.fib.exit_price>>
        ELSE IF c.time_capit THEN <<"static time capit", e.candle.close>>
        ELSE <<"None", e.position.Target_Price>>

\* the number of exit conditions that hold for the position of an entry
HeldCount(e) ==
    LET c == e.conditions
        n(b) == IF b THEN 1 ELSE 0
    IN  n(c.advanced.should_close) + n(c.static.should_close)
        + n(c.fib.should_close) + n(c.time_capit) + n(c.completion)

\* C8 - Exit priority: when several exit conditions hold for an open
\* position in a minute, exactly one close is performed, with the reason and
\* the price of the highest-priority condition in the order advanced
\* drawdown > static drawdown > fib stop (0.5, 0.0, -0.5, -1.0) > static
\* time capitulation > target completion.
C8_ExitPriority ==
    /\ \A i \in 1..Len(exit_log) :
          HeldCount(exit_log[i]) >= 2 =>
              /\ exit_log[i].loss_reason = HighestPriority(exit_log[i])[1]
              /\ exit_log[i].close_price = HighestPriority(exit_log[i])[2]
    /\ \A i, j \in 1..Len(exit_log) :
          (i # j /\ exit_log[i].minute = exit_log[j].minute)
              => exit_log[i].trade_id # exit_log[j].trade_id

\* realized_PnL of close_trade for a close of the entry's position at price
RealizedAt(e, price) ==
    LET size == e.position.Position_Size
        price_pnl == IF e.position.Direction = "long"
                     THEN FMul(FSub(price, e.cost_basis), size)
                     ELSE FMul(FSub(e.cost_basis, price), size)
    IN  FSub(FSub(price_pnl, e.position.opening_fee),
             FMul(FMul(price, size), fee_rate))

\* C9 - When a drawdown stop (advanced or static) fires for a position, the
\* position is closed at the exit price the drawdown check returned: the
\* close entry of the trade log records that price and the realized PnL at
\* that price.
C9_DrawdownClosesAtExitPrice ==
    \A i \in 1..Len(exit_log) :
        LET e == exit_log[i]
        IN  e.exit_price # None_price =>
               /\ trades_all[e.log_index].price = RoundTo(e.exit_price, LOG_NDIGITS)
               /\ trades_all[e.log_index].realized_PnL
                     = RoundTo(RealizedAt(e, e.exit_price), LOG_NDIGITS)

\* entry*(1 - A/100) for a long, entry*(1 + A/100) for a short
ThresholdPrice(pos, A) ==
    IF pos.Direction = "long"
    THEN FMul(pos.Open_Price, FSub(FI(1), FDiv(A, FI(100))))
    ELSE FMul(pos.Open_Price, FAdd(FI(1), FDiv(A, FI(100))))

\* C10 - Whenever the advanced drawdown check fires, in the same-minute
\* branch or in the live-candle branch, the exit price it computes is
\* entry*(1 - A/100) for a long and entry*(1 + A/100) for a short, A being
\* the allowed percentage base + scale*(max - base).
C10_AdvancedExitPrice ==
    \A i \in 1..Len(exit_log) :
        LET e == exit_log[i]
        IN  e.conditions.advanced.should_close =>
               Near(e.conditions.advanced.exit_price,
                    ThresholdPrice(e.position, ampd_percent_of(e.position)), 1)



\* max_allowed_positions of run_simulation and process_entry
MaxPositions == (cfg.MAX_LEVERAGE * 100) \div position_size_percent

\* the leverage cap is configured
CapConfigured == cfg.position_size_method = 3 /\ cfg.MAX_LEVERAGE > 0

\* C11: with the leverage cap configured, the number of open positions,
\* regular and Fibonacci-level entries alike, never exceeds
\* floor(leverage * 100 / position_size_percent).
C11_LeverageCap ==
    CapConfigured => Len(open_positions) <= MaxPositions

\* an instance whose activation minute of this run is behind and that has
\* neither an open position nor a close: its entry was refused
Refused(i) ==
    /\ run.first >= 0
    /\ MinuteOf(TruncMinute(instances[i].Active_Date)) >= run.first
    /\ MinuteOf(TruncMinute(instances[i].Active_Date)) < next_minute
    /\ \A k \in 1..Len(open_positions) :
          open_positions[k].instance_id # instances[i].instance_id
    /\ \A k \in 1..Len(exit_log) :
          exit_log[k].position.instance_id # instances[i].instance_id

\* the cap is reached and has refused an entry
C11_Witness ==
    /\ CapConfigured
    /\ Len(open_positions) = MaxPositions
    /\ \E i \in 1..Len(instances) : Refused(i)


\* sim_exits would close position pos in minute m: one of the conditions of
\* its cascade holds
WouldClose(pos, m) ==
    LET c == ExitConditions(pos, candles[m], MinuteTs(m))
    IN  \/ cfg.use_ampd_percent /\ c.advanced.should_close
        \/ cfg.use_mpd_percent /\ c.static.should_close
        \/ c.fib.should_close
        \/ c.time_capit
        \/ c.completion

\* C12: within a minute the entries are applied before any exit condition
\* is evaluated, and a run processes the minutes in the order of the candle
\* series: no position is left open whose exit was due in the minute that
\* opened it, and the minutes a run has processed are consecutive.
C12_EntriesBeforeExits ==
    /\ \A k \in 1..Len(open_positions) :
          ~WouldClose(open_positions[k], MinuteOf(open_positions[k].trade_date))
    /\ run.first >= 0 => next_minute = run.first + run.processed
    /\ run.first >= 0 =>
          analysis_log[Len(analysis_log)].timestamp = MinuteTs(next_minute - 1)

\* a position was opened and closed in the same minute
C12_Witness ==
    \E k \in 1..Len(exit_log) :
        /\ exit_log[k].position.trade_date = exit_log[k].minute
        /\ run.processed >= 2


\* a stop of the cascade ahead of the completion fired in the close e
StopFired(e) ==
    \/ cfg.use_ampd_percent /\ e.conditions.advanced.should_close
    \/ cfg.use_mpd_percent /\ e.conditions.static.should_close
    \/ e.conditions.fib.should_close
    \/ e.conditions.time_capit

\* C13: a position that is open when the minute of its Completed Date is
\* processed is not open after that minute; and when no drawdown, fib stop
\* or time capitulation fired for it in that minute, it is closed at its
\* Target Price with no loss reason.
C13_TargetCompletion ==
    /\ \A k \in 1..Len(open_positions) :
          LET pos == open_positions[k]
          IN  ~ /\ pos.Completed_Date # None_date
                /\ TruncMinute(pos.trade_date) <= TruncMinute(pos.Completed_Date)
                /\ MinuteOf(pos.Completed_Date) < next_minute
    /\ \A k \in 1..Len(exit_log) :
          LET e == exit_log[k]
          IN  e.conditions.completion /\ ~StopFired(e) =>
                 /\ e.close_price = e.position.Target_Price
                 /\ e.loss_reason = "None"
                 /\ trades_all[e.log_index].price =
                        RoundTo(e.position.Target_Price, LOG_NDIGITS)
                 /\ trades_all[e.log_index].loss_reason = "None"
                 /\ trades_all[e.log_index].trade_id = e.trade_id

\* a position was closed by its completion, in a minute after its opening
C13_Witness ==
    \E k \in 1..Len(exit_log) :
        /\ exit_log[k].conditions.completion
        /\ ~StopFired(exit_log[k])
        /\ exit_log[k].minute > exit_log[k].position.trade_date
        /\ exit_log[k].close_price = exit_log[k].position.Target_Price


\* the total bankroll of the current minute is under starting_bankroll * threshold
BelowThreshold ==
    FLt(FAdd(FAdd(cash_on_hand, long_pnl), short_pnl),
        FMul(FI(starting_bankroll), LOW_BANKROLL_THRESHOLD))

\* the run was stopped by the low-bankroll rule
LowBankrollStopped == pc = "terminated" /\ marker.reason = "low bankroll"

\* C14: with the low-bankroll rule enabled, the minute whose total bankroll
\* (cash + long_pnl + short_pnl) is under starting_bankroll * threshold is
\* the one that writes the termination marker and stops the loop, and no
\* earlier minute does; the marker carries that minute, whose snapshot is
\* the last one; and from the stopped state the run processes no minute: the
\* only step is a continuation the user starts, which by itself appends no
\* snapshot and no trade.
C14_LowBankrollTermination ==
    /\ [](cfg.USE_LOW_BANKROLL_TERMINATION =>
            /\ (run.processed > 0 /\ pc # "crashed" /\ BelowThreshold) => LowBankrollStopped
            /\ pc = "terminated" =>
                  /\ LowBankrollStopped
                  /\ BelowThreshold
                  /\ marker.time = analysis_log[Len(analysis_log)].timestamp
                  /\ marker.time = MinuteTs(next_minute - 1))
    /\ [][LowBankrollStopped =>
            /\ run'.number = run.number + 1
            /\ analysis_log' = analysis_log
            /\ trades_all' = trades_all]_vars

\* a run stopped by the rule in a minute after its first, with a position open
C14_Witness ==
    /\ LowBankrollStopped
    /\ run.number = 1
    /\ run.processed >= 2
    /\ open_positions # <<>>


\* C15: with the low-volume rule enabled, the run stops at a month boundary
\* exactly when the volume of the month behind it, the positions opened in
\* that month that are still open plus the positions closed in that month,
\* is under the threshold.
C15_LowVolumeTermination ==
    (cfg.USE_LOW_VOLUME_TERMINATION /\ run.boundary.month # 0) =>
        (run.boundary.stopped <=>
            run.boundary.still_open + run.boundary.closed < LOW_VOLUME_THRESHOLD)


\* C16: while no write fails, open_positions.csv holds exactly one row per
\* open position of the running simulation, with the same trade ids; a
\* removal by key therefore leaves every other position's row in the file.
C16_DurableOpenPositions ==
    (write_failures = 0 /\ run.number = 1 /\ pc # "crashed") =>
        /\ Len(open_positions_csv.rows) = Len(open_positions)
        /\ {RowTradeId(open_positions_csv, open_positions_csv.rows[k]) :
                k \in 1..Len(open_positions_csv.rows)}
           = {open_positions[k].trade_id : k \in 1..Len(open_positions)}


\* the checkpoint load_state reads is malformed: no snapshot to restore
\* from, or rows of open_positions.csv that do not parse under its header
CheckpointMalformed ==
    \/ analysis_log = <<>>
    \/ open_positions_csv.exists /\ open_positions_csv.header = "columns"
                                 /\ open_positions_csv.rows # <<>>

\* a continuation has loaded the checkpoint and processed no minute yet
ResumedJustNow ==
    run.number > 1 /\ run.processed = 0 /\ (pc = "running" \/ analysis_log = <<>>)

\* the default Ledger and an empty open-position set
StartedFresh ==
    /\ cash_on_hand = Fresh.cash_on_hand
    /\ total_long_position = Zero /\ total_short_position = Zero
    /\ long_cost_basis = Zero /\ short_cost_basis = Zero
    /\ open_positions = <<>>

\* C17: a continuation from a malformed checkpoint goes on running, from the
\* default Ledger and an empty open-position set.
C17_ResumeCorruption ==
    (ResumedJustNow /\ CheckpointMalformed) => (pc = "running" /\ StartedFresh)


\* the instance has a position, open or closed
Opened(i) ==
    \/ \E k \in 1..Len(open_positions) :
          open_positions[k].instance_id = instances[i].instance_id
    \/ \E k \in 1..Len(exit_log) :
          exit_log[k].position.instance_id = instances[i].instance_id

\* the first run has reached the minute in which the instance activates
Activated(i) ==
    /\ run.number = 1
    /\ run.first >= 0
    /\ MinuteOf(TruncMinute(instances[i].Active_Date)) < next_minute

\* C18: an instance without an entry price that activates is skipped and is
\* not fatal: the run does not end on an error while the position size mode
\* is valid, the instance gets no position, and the well-formed candidates
\* of its minute get theirs.
C18_MalformedInstanceSkipped ==
    cfg.position_size_method \in {1, 2, 3} =>
        /\ pc # "crashed"
        /\ \A i \in 1..Len(instances) :
              instances[i].entry = None_price => ~Opened(i)
        /\ \A i, j \in 1..Len(instances) :
              (/\ instances[i].entry = None_price
               /\ instances[j].entry # None_price
               /\ Activated(i) /\ Activated(j)
               /\ ~CapConfigured) => Opened(j)


\* C19: a run whose position size mode is outside {1, 2, 3} writes no
\* MinuteSnapshot and no trade-log entry.
C19_InvalidModeFailsAtStartup ==
    cfg.position_size_method \notin {1, 2, 3} =>
        (analysis_log = <<>> /\ trades_all = <<>>)


\* the Ledger and the open-position set in memory are those of the same run
\* with every write succeeding
AsIfWritten ==
    /\ cash_on_hand = onepass.L.cash_on_hand
    /\ total_long_position = onepass.L.total_long_position
    /\ total_short_position = onepass.L.total_short_position
    /\ long_cost_basis = onepass.L.long_cost_basis
    /\ short_cost_basis = onepass.L.short_cost_basis
    /\ long_pnl = onepass.L.long_pnl
    /\ short_pnl = onepass.L.short_pnl
    /\ open_positions = onepass.L.open_positions

\* every instance of the file has an entry price (none ends the run in
\* float(trade['entry']))
EntriesParse == \A i \in 1..Len(instances) : instances[i].entry # None_price

\* C20: write_log_entry makes at most max_retries attempts; when all of them
\* fail the run is not aborted, and the Ledger and the open-position set in
\* memory are what they are when the write succeeds.
C20_WriteRetriesBounded ==
    /\ write_attempts <= max_retries
    /\ (write_failures > 0 /\ run.number = 1 /\ EntriesParse) =>
          /\ pc # "crashed"
          /\ AsIfWritten

\* every attempt of a write has failed, the row is missing from the file,
\* and the run has gone on to a later minute with the position in memory
C20_Witness ==
    /\ write_failures >= max_retries
    /\ write_attempts = max_retries
    /\ run.number = 1
    /\ pc = "running"
    /\ open_positions # <<>>
    /\ ~open_positions_csv.exists
    /\ next_minute > MinuteOf(open_positions[1].trade_date) + 1


\* some enabled trigger mode has a qualifying trigger for the instance
HasQualifyingTrigger(i) ==
    \E j \in 1..Len(instances) :
        \/ tt_stf_any_inside_activation /\ AnyInsideQualifies(instances[i], instances[j])
        \/ tt_stf_same_minute /\ SameMinuteQualifies(instances[i], instances[j])
        \/ tt_stf_within_x_candles
           /\ WindowQualifies(instances[i], instances[j], tf_minutes * tt_stf_within_x)
        \/ tt_stf_within_x_minutes
           /\ WindowQualifies(instances[i], instances[j], tt_stf_within_minutes)

\* C21: with trigger modes enabled, an instance whose activation minute the
\* run has processed is entered exactly when some enabled mode has a
\* qualifying trigger of its direction for it, whichever other modes are on.
C21_TriggerModesCompose ==
    (cfg.tt # {} /\ pc # "crashed" /\ ~CapConfigured) =>
        \A i \in 1..Len(instances) :
            Activated(i) => (Opened(i) <=> HasQualifyingTrigger(i))

\* every position the entry processor has created: those still held and
\* those closed since
OpenEvents ==
    open_positions \o [k \in 1..Len(exit_log) |-> exit_log[k].position]

\* C22: an instance has at most one regular open event and, for each fib
\* level, at most one additional open event with the derived id; no two
\* positions ever created share the instance and the fib level.
C22_OneEntryPerInstance ==
    \A i, j \in 1..Len(OpenEvents) :
        i # j =>
            ~(/\ OpenEvents[i].instance_id = OpenEvents[j].instance_id
              /\ OpenEvents[i].trade_id.fib = OpenEvents[j].trade_id.fib)

\* C23: every position created has 0 <= ampd_p_value <= 1 and
\* 0 <= ampd_t_value <= 1, whatever the confirm and Active dates of its
\* instance and whatever its trigger trade, and a factor is 0 when its
\* feature is off.
C23_RiskScalingRange ==
    \A k \in 1..Len(OpenEvents) :
        /\ FLe(FI(0), OpenEvents[k].ampd_p_value)
        /\ FLe(OpenEvents[k].ampd_p_value, FI(1))
        /\ FLe(FI(0), OpenEvents[k].ampd_t_value)
        /\ FLe(OpenEvents[k].ampd_t_value, FI(1))
        /\ ~cfg.ampd_use_pending_time => FIsZero(OpenEvents[k].ampd_p_value)
        /\ ~cfg.ampd_use_trigger_time => FIsZero(OpenEvents[k].ampd_t_value)

\* C24: every position created has Position Size > 0, whatever the cash on
\* hand was when it was opened, and neither aggregate side position is
\* negative.
C24_PositionSizePositive ==
    /\ \A k \in 1..Len(OpenEvents) : FSign(OpenEvents[k].Position_Size) > 0
    /\ FSign(total_long_position) >= 0
    /\ FSign(total_short_position) >= 0

\* the step is a simulated minute in which exactly one open or close
\* happened: the trade log has grown by one entry
OneTradeStep ==
    /\ run'.number = run.number
    /\ Len(trades_all') = Len(trades_all) + 1
    /\ SubSeq(trades_all', 1, Len(trades_all)) = trades_all

TradeOfStep == trades_all'[Len(trades_all')]

\* C25: an open or a close of one side leaves the aggregate position and
\* the cost basis of the other side unchanged, and a close leaves the cost
\* basis of its own side unchanged unless the aggregate position of that
\* side is exactly 0 after it, and then the basis is 0.
C25_SideIndependence ==
    [][OneTradeStep =>
         /\ TradeOfStep.order_type \in {"open long", "close long"} =>
               /\ total_short_position' = total_short_position
               /\ short_cost_basis' = short_cost_basis
         /\ TradeOfStep.order_type \in {"open short", "close short"} =>
               /\ total_long_position' = total_long_position
               /\ long_cost_basis' = long_cost_basis
         /\ TradeOfStep.order_type = "close long" =>
               long_cost_basis' = IF FIsZero(total_long_position') THEN Zero
                                  ELSE long_cost_basis
         /\ TradeOfStep.order_type = "close short" =>
               short_cost_basis' = IF FIsZero(total_short_position') THEN Zero
                                   ELSE short_cost_basis]_vars

\* a long position has been closed, alone in its minute, while a short
\* position was held: the short side still has its size and its basis
C25_Witness ==
    /\ Len(trades_all) >= 2
    /\ trades_all[Len(trades_all)].order_type = "close long"
    /\ MinuteOf(trades_all[Len(trades_all) - 1].trade_date)
           < MinuteOf(trades_all[Len(trades_all)].trade_date)
    /\ next_minute = MinuteOf(trades_all[Len(trades_all)].trade_date) + 1
    /\ FSign(total_short_position) > 0
    /\ ~FIsZero(short_cost_basis)

\* the close events of the persisted trade history with ind_PnL of a sign
PersistedCloses(sign) ==
    Cardinality({k \in 1..Len(trades_all) :
                    /\ IsCloseRow(trades_all[k])
                    /\ FSign(trades_all[k].ind_PnL) = sign})

\* C26: a continued run starts with its win counter at the number of close
\* events of the persisted trade history with ind_PnL > 0 and its loss
\* counter at the number of those with ind_PnL < 0.
C26_WinLossContinuity ==
    (run.number > 1 /\ pc = "running" /\ run.processed = 0) =>
        /\ run.total_wins = PersistedCloses(1)
        /\ run.total_losses = PersistedCloses(0 - 1)

\* the prices a close can take from the position's own fields and the
\* candle of the minute: the candle's close, the exit price of its drawdown
\* check, its fib stop price and its Target Price
OwnPrices(e) ==
    {e.candle.close, e.position.Target_Price}
        \cup (IF e.exit_price # None_price THEN {e.exit_price} ELSE {})
        \cup (IF e.conditions.fib.should_close
              THEN {e.conditions.fib.exit_price} ELSE {})

\* C27: the price at which a position is closed in a minute is computed
\* from the position's own fields and the candle of that minute, whichever
\* other positions were closed before it in the same minute.
C27_FillPriceIndependence ==
    \A i \in 1..Len(exit_log) : exit_log[i].close_price \in OwnPrices(exit_log[i])

realized_PnL_of(e) == RealizedAt(e, e.close_price)

\* sum of the realized_PnL (which = "realized") or of the ind_PnL (which =
\* "ind") over the closes of the exit log whose direction is in directions
RECURSIVE SumOverCloses(_, _, _)
SumOverCloses(log, directions, which) ==
    IF log = <<>> THEN Zero
    ELSE FAdd(SumOverCloses(Tail(log), directions, which),
              IF Head(log).position.Direction \notin directions THEN Zero
              ELSE IF which = "realized" THEN realized_PnL_of(Head(log))
              ELSE ind_PnL_of(Head(log)))

\* C28: whenever the aggregate position of a side is 0, the realized_PnL of
\* all the closes of that side sum to the same as their ind_PnL, and whenever
\* both sides are flat cash_on_hand is the starting cash plus the ind_PnL of
\* all closed positions (up to the rounding of the logged numbers).
C28_PnLReconciliation ==
    /\ FIsZero(total_long_position) =>
          Near(SumOverCloses(exit_log, {"long"}, "realized"),
               SumOverCloses(exit_log, {"long"}, "ind"), 2)
    /\ FIsZero(total_short_position) =>
          Near(SumOverCloses(exit_log, {"short"}, "realized"),
               SumOverCloses(exit_log, {"short"}, "ind"), 2)
    /\ (FIsZero(total_long_position) /\ FIsZero(total_short_position)) =>
          Near(cash_on_hand,
               FAdd(Fresh.cash_on_hand,
                    SumOverCloses(exit_log, {"long", "short"}, "ind")), 2)

\* the regular (non-Fibonacci) positions created so far
RegularOpenEvents == SelectSeq(OpenEvents, LAMBDA pos : pos.trade_id.fib = None_level)

\* a regular position of OpenEvents' that the step has created
NewRegularOpen(pos) ==
    /\ pos.trade_id.fib = None_level
    /\ \A k \in 1..Len(OpenEvents) : OpenEvents[k] # pos

\* C29: every regular open event of an instance is dated in the minute of
\* the instance's Active Date, and it is made by the step that simulates
\* that minute: an instance not opened in that minute is not opened in a
\* later one.
C29_OpenInActivationMinute ==
    /\ [](\A k \in 1..Len(RegularOpenEvents) :
              RegularOpenEvents[k].trade_date
                  = TruncMinute(RegularOpenEvents[k].active_date))
    /\ [][\A k \in 1..Len(OpenEvents') :
              NewRegularOpen(OpenEvents'[k]) =>
                  /\ pc = "running"
                  /\ TruncMinute(OpenEvents'[k].active_date) = MinuteTs(next_minute)]_vars

\* an instance refused by the position cap in its activation minute is
\* still without a position two minutes later, although the cap has room
\* again
C29_Witness ==
    /\ CapConfigured
    /\ Len(open_positions) < MaxPositions
    /\ RegularOpenEvents # <<>>
    /\ \E i \in 1..Len(instances) :
          /\ Refused(i)
          /\ next_minute > MinuteOf(TruncMinute(instances[i].Active_Date)) + 1

\* the number of entries of the trade log from index from + 1 on that
\* satisfy the test
OpensSince(log, from) ==
    Cardinality({k \in (from + 1)..Len(log) : IsOpenRow(log[k])})

ClosesSince(log, from) ==
    Cardinality({k \in (from + 1)..Len(log) : IsCloseRow(log[k])})

\* C30: the trade log holds at most one close event for a trade_id, after
\* the open event of that trade_id; a trade_id that has a close event is
\* not in the open-position set; and in every simulated minute each close
\* removes one entry from the open-position set and appends one
\* closed-position record.
C30_PositionLifecycle ==
    /\ [](/\ \A i, j \in 1..Len(trades_all) :
                (i < j /\ IsCloseRow(trades_all[i]) /\ IsCloseRow(trades_all[j]))
                    => trades_all[i].trade_id # trades_all[j].trade_id
          /\ \A j \in 1..Len(trades_all) :
                IsCloseRow(trades_all[j]) =>
                    \E i \in 1..(j - 1) :
                        /\ IsOpenRow(trades_all[i])
                        /\ trades_all[i].trade_id = trades_all[j].trade_id
          /\ \A j \in 1..Len(trades_all) : \A k \in 1..Len(open_positions) :
                IsCloseRow(trades_all[j]) =>
                    open_positions[k].trade_id # trades_all[j].trade_id)
    /\ [][(run'.number = run.number /\ Len(trades_all') >= Len(trades_all)) =>
             /\ Len(closed_positions_csv')
                   = Len(closed_positions_csv) + ClosesSince(trades_all', Len(trades_all))
             /\ Len(open_positions')
                   = Len(open_positions) + OpensSince(trades_all', Len(trades_all))
                         - ClosesSince(trades_all', Len(trades_all))]_vars

=============================================================================
